---- MODULE Spec2Model ----
(***************************************************************************)
(* A model of the dubbo-python3 client: the ZooKeeper registry of          *)
(* dubbo/client.py (discovery, provider and configurator watchers,         *)
(* weighted routing), the client facade DubboClient and the request        *)
(* encoder of dubbo/codec/encoder.py.                                      *)
(*                                                                         *)
(* Python values are represented as follows.                               *)
(*   - A group or version string is the sequence of the tokens that        *)
(*     str.split(',') returns for it, so "a,b" is <<"a", "b">>, "g" is     *)
(*     <<"g">> and the empty string is <<"">>; two strings are equal       *)
(*     exactly when their token sequences are.  None, which splits into    *)
(*     nothing, is the empty sequence NoneStr.                             *)
(*   - A dict is a function whose DOMAIN is the set of its keys; the       *)
(*     registry's dicts self.hosts and self.weights are keyed by the       *)
(*     interface name.                                                     *)
(*   - A text encoded by the encoder is the sequence of its code points.   *)
(***************************************************************************)
EXTENDS Integers, Sequences, FiniteSets, TLC

VARIABLES
    \* the routing function applied to one host list and one weight map
    r_pc, r_hosts, r_weights, r_hit, r_result,
    \* the provider filter applied to one listing
    f_pc, f_providers, f_group, f_version, f_result,
    \* one DubboClient: its fields, one call and the request built for it
    c_pc, c_client, c_method, c_args, c_host, c_param, c_result,
    \* ZooKeeper and the kazoo client: the znodes of the interface, the armed
    \* child watches of the providers path (how many closures per captured
    \* (group, version)), whether _watch_configurators is armed, and the fired
    \* watches that wait for kazoo's callback thread
    zk, provWatch, confWatch, cbQueue,
    \* ZkRegister: self.hosts, self.weights, self.lock
    hosts, weights, lock,
    \* the caller threads inside get_provider_host, and kazoo's callback thread
    th, watcher,
    \* what the environment has done so far, and the history of the registry
    env, hist,
    \* one request dict encoded by a Request instance, and by another one
    e_pc, e_request, e_first, e_other

routeVars == <<r_pc, r_hosts, r_weights, r_hit, r_result>>
filterVars == <<f_pc, f_providers, f_group, f_version, f_result>>
callVars == <<c_pc, c_client, c_method, c_args, c_host, c_param, c_result>>
regVars == <<zk, provWatch, confWatch, cbQueue, hosts, weights, lock, th, watcher, env, hist>>
encVars == <<e_pc, e_request, e_first, e_other>>
vars == <<routeVars, filterVars, callVars, regVars, encVars>>

----------------------------------------------------------------------------
(* Values shared by the whole model *)

NoneV == "None"
NoneStr == <<>>
NoHit == 0 - 1
EmptyDict == <<>>
Interface == "I"
Star == <<"*">>
EmptyStr == <<"">>

RegisterException == "RegisterException"
ValueError == "ValueError"
KeyError == "KeyError"
HessianTypeError == "HessianTypeError"

Range(s) == {s[i] : i \in 1..Len(s)}

\* dict.get(k, d)
DictGet(m, k, d) == IF k \in DOMAIN m THEN m[k] ELSE d

RECURSIVE SumSeq(_)
SumSeq(s) == IF s = <<>> THEN 0 ELSE s[1] + SumSeq(Tail(s))

\* every sequence over S of length lo..hi
SeqsOf(S, lo, hi) == UNION {[1..n -> S] : n \in lo..hi}

\* every dict with keys in K and values in V
DictsOf(K, V) == UNION {[D -> V] : D \in SUBSET K}

----------------------------------------------------------------------------
(* ZkRegister._routing_with_wight, client.py 311-334 *)

DefaultWeight == 100

\* hosts_weight: int(weights.get(host, 100)) for every host, in order
hosts_weight(hosts_, weights_) ==
    [i \in 1..Len(hosts_) |-> DictGet(weights_, hosts_[i], DefaultWeight)]

\* the test made against the weights before the host, strictly
hit_selects_excluding(hw, hit, i) == hit < SumSeq(SubSeq(hw, 1, i - 1))

\* the test of the selection loop for the 0-based index i-1:
\* hit <= sum(hosts_weight[:i])
hit_selects(hw, hit, i) == hit <= SumSeq(SubSeq(hw, 1, i))

\* the selection loop: the first host whose test passes, else the final raise
select_by_hit(hosts_, hw, hit) ==
    IF \E i \in 1..Len(hosts_) : hit_selects(hw, hit, i)
    THEN hosts_[CHOOSE i \in 1..Len(hosts_) :
                    /\ hit_selects(hw, hit, i)
                    /\ \A j \in 1..(i - 1) : ~hit_selects(hw, hit, j)]
    ELSE RegisterException

\* the naive branch is taken when the interface has no weight map or an empty one
no_weights(weights_, interface) ==
    IF interface \in DOMAIN weights_ THEN DOMAIN weights_[interface] = {} ELSE TRUE

----------------------------------------------------------------------------
(* ZkRegister._filter_with_group_version and is_contain, client.py 212-231 *)

\* Python truthiness of an Optional[str]
Truthy(s) == s # NoneStr /\ s # EmptyStr

\* value in contains_value.split(','): value is one whole string, so it is
\* a member only when it is a single token
is_contain(contains_value, value) ==
    /\ Truthy(contains_value)
    /\ Truthy(value)
    /\ Len(value) = 1
    /\ value[1] \in Range(contains_value)

\* the lambda of the filter; `and` binds tighter than `or` in Python, so the
\* version clause is attached to the default.group test alone
provider_kept(provider, consumer_group, consumer_version) ==
    \/ consumer_group = NoneStr
    \/ Star = consumer_group
    \/ provider.group = consumer_group
    \/ is_contain(consumer_group, provider.group)
    \/ /\ is_contain(consumer_group, provider.default_group)
       /\ \/ consumer_version = NoneStr
          \/ Star = consumer_version
          \/ provider.version = consumer_version
          \/ is_contain(consumer_version, provider.version)

filter_with_group_version(providers, consumer_group, consumer_version) ==
    LET keep(p) == provider_kept(p, consumer_group, consumer_version)
    IN  SelectSeq(providers, keep)

----------------------------------------------------------------------------
(* dubbo/codec/encoder.py.  The file is Python 2 code (print statements,
   str.decode), so a str is a byte string whose decoded length is its
   number of code points.  A value is a record with its Python type:
     [type |-> "bool", val], [type |-> "int", wide, val], [type |-> "str", val],
     [type |-> "Object", path, keys, vals], [type |-> "NoneType"],
     [type |-> "list", val]
   and a text is the sequence of its code points.  An int is the number
   wide * 2^32 + val with val a signed 32-bit word, so that it lies in the
   signed 32-bit range exactly when wide = 0.  An encoding result is
   [exc, out, classes]: the exception raised ("" for none), the bytes
   appended and the class table of the Request afterwards. *)

\* dubbo/common/constants.py
BC_INT_ZERO == 144
INT_DIRECT_MIN == 0 - 16
INT_DIRECT_MAX == 47
BC_INT_BYTE_ZERO == 200
INT_BYTE_MIN == 0 - 2048
INT_BYTE_MAX == 2047
BC_INT_SHORT_ZERO == 212
INT_SHORT_MIN == 0 - 262144
INT_SHORT_MAX == 262143
MIN_INT_32 == (0 - 2147483647) - 1
MAX_INT_32 == 2147483647
BC_DOUBLE_ZERO == 91
BC_DOUBLE_ONE == 92
BC_DOUBLE_BYTE == 93
BC_DOUBLE_SHORT == 94
BC_DOUBLE_MILL == 95
BC_STRING_DIRECT == 0
STRING_DIRECT_MAX == 31
BC_STRING_SHORT == 48
STRING_SHORT_MAX == 1023
\* magic 0xdabb, the request flags, status 0 and an 8-byte zero request id
DEFAULT_REQUEST_META == <<218, 187, 194, 0, 0, 0, 0, 0, 0, 0, 0, 0>>

NoExc == ""
Ok(bytes, classes) == [exc |-> NoExc, out |-> bytes, classes |-> classes]
Raised(e, classes) == [exc |-> e, out |-> <<>>, classes |-> classes]

PyNone == [type |-> "NoneType"]
PyStr(text) == [type |-> "str", val |-> text]
PyInt(i) == [type |-> "int", wide |-> 0, val |-> i]
PyLong(w, i) == [type |-> "int", wide |-> w, val |-> i]
PyBool(b) == [type |-> "bool", val |-> b]

\* a float, given by what the encoder computes from it: int(value), whether
\* int(value) == value, int(value * 1000), whether 0.001 * mills == value, and
\* the 8 big-endian bytes of its IEEE 754 representation
PyFloat(int_value, integral, mills, exact, bits) ==
    [type |-> "float", int_value |-> int_value, integral |-> integral,
     mills |-> mills, exact |-> exact, bits |-> bits]

\* an Object: its path, and its dict of values as the keys in the order of
\* keys() and the values under them
PyObject(path, keys, vals) == [type |-> "Object", path |-> path, keys |-> keys, vals |-> vals]

\* Python truthiness of None or a str
ValueTruthy(v) == IF v.type = "str" THEN v.val # <<>> ELSE FALSE

\* the UTF-8 bytes of one code point (below U+0800)
Utf8(cp) == IF cp < 128 THEN <<cp>> ELSE <<192 + (cp \div 64), 128 + (cp % 64)>>

RECURSIVE Utf8Bytes(_)
Utf8Bytes(text) == IF text = <<>> THEN <<>> ELSE Utf8(Head(text)) \o Utf8Bytes(Tail(text))

\* x >> k
Shr_one_more(x, k) == x \div (2 ^ (k + 1))
Shr(x, k) == x \div (2 ^ k)

\* list.index, 0-based
IndexOf(s, x) == (CHOOSE i \in 1..Len(s) : s[i] = x /\ \A j \in 1..(i - 1) : s[j] # x) - 1

\* value > bound and value < bound for a bound in the signed 32-bit range
int_gt_or_equal(value, bound) == value.wide > 0 \/ (value.wide = 0 /\ value.val >= bound)
int_gt(value, bound) == value.wide > 0 \/ (value.wide = 0 /\ value.val > bound)
int_lt(value, bound) == value.wide < 0 \/ (value.wide = 0 /\ value.val < bound)

\* the 4 big-endian two's complement bytes of a signed 32-bit word
Word32(w) == <<Shr(w, 24) % 256, Shr(w, 16) % 256, Shr(w, 8) % 256, w % 256>>

\* struct.pack('>q', value): 8 bytes, big-endian two's complement
PackQ(value) ==
    Word32(IF value.val < 0 THEN value.wide - 1 ELSE value.wide) \o Word32(value.val)

\* lines 157-178: an int
encode_int(value) ==
    IF int_gt(value, MAX_INT_32) \/ int_lt(value, MIN_INT_32)
    THEN <<76>> \o PackQ(value)
    ELSE LET v == value.val
         IN  IF INT_DIRECT_MIN <= v /\ v <= INT_DIRECT_MAX
             THEN <<v + BC_INT_ZERO>>
             ELSE IF INT_BYTE_MIN <= v /\ v <= INT_BYTE_MAX
             THEN <<BC_INT_BYTE_ZERO + Shr(v, 8), v>>
             ELSE IF INT_SHORT_MIN <= v /\ v <= INT_SHORT_MAX
             THEN <<BC_INT_SHORT_ZERO + Shr(v, 16), Shr(v, 8), v>>
             ELSE <<73, Shr(v, 24), Shr(v, 16), Shr(v, 8), v>>

\* dubbo/common/util.py double_to_long_bits, and lines 210-217: the bytes
\* bits >> 56, ..., bits of the IEEE 754 representation
double_to_long_bits(value) == value.bits

\* lines 180-218: a float
encode_float(value) ==
    LET int_value == value.int_value
        mills == value.mills
    IN  IF value.integral /\ int_value = 0 THEN <<BC_DOUBLE_ZERO>>
        ELSE IF value.integral /\ int_value = 1 THEN <<BC_DOUBLE_ONE>>
        ELSE IF value.integral /\ (0 - 128) <= int_value /\ int_value < 128
        THEN <<BC_DOUBLE_BYTE, int_value>>
        ELSE IF value.integral /\ (0 - 32768) <= int_value /\ int_value < 32768
        THEN <<BC_DOUBLE_SHORT, Shr(int_value, 8), int_value>>
        ELSE IF value.exact /\ MIN_INT_32 <= mills /\ mills <= MAX_INT_32
        THEN <<BC_DOUBLE_MILL, Shr(mills, 24), Shr(mills, 16), Shr(mills, 8), mills>>
        ELSE <<68>> \o double_to_long_bits(value)

\* lines 220-233: a str; the length is the number of code points
encode_str(text) ==
    LET length == Len(text)
        head == IF length <= STRING_DIRECT_MAX
                THEN <<BC_STRING_DIRECT + length>>
                ELSE IF length <= STRING_SHORT_MAX
                THEN <<BC_STRING_SHORT + Shr(length, 8), length>>
                ELSE <<83, Shr(length, 8), length>>
    IN  head \o Utf8Bytes(text)

\* every occurrence of an Object taken for the first of its class
class_known_never(classes, path) == FALSE

\* line 239: path in self.__classes
class_known(classes, path) == path \in Range(classes)

\* line 260: a value of no known type
unknown_type_skipped(value, classes) == Ok(<<>>, classes)
unknown_type(value, classes) == Raised(HessianTypeError, classes)

RECURSIVE encode_single_value(_, _)
RECURSIVE encode_each(_, _)

\* lines 142-260
encode_single_value(value, classes) ==
    IF value.type = "bool"
    THEN Ok(IF value.val THEN <<84>> ELSE <<70>>, classes)
    ELSE IF value.type = "int"
    THEN Ok(encode_int(value), classes)
    ELSE IF value.type = "float"
    THEN Ok(encode_float(value), classes)
    ELSE IF value.type = "str"
    THEN Ok(encode_str(value.val), classes)
    ELSE IF value.type = "Object"
    THEN LET path == value.path
             field_names == value.keys
             known == class_known(classes, path)
             classes1 == IF known THEN classes ELSE Append(classes, path)
             definition ==
                 IF known THEN <<>>
                 ELSE <<67>> \o encode_str(path) \o encode_int(PyInt(Len(field_names)))
                      \o encode_each([i \in 1..Len(field_names) |-> PyStr(field_names[i])], classes).out
             class_id == IndexOf(classes1, path)
             reference ==
                 IF class_id <= 15 THEN <<(class_id + 96) % 256>>
                 ELSE <<79>> \o encode_int(PyInt(class_id))
             fields == encode_each(value.vals, classes1)
         IN  IF fields.exc # NoExc THEN fields
             ELSE Ok(definition \o reference \o fields.out, fields.classes)
    ELSE unknown_type(value, classes)

\* body.extend(self._encode_single_value(v)) for every v, in order
encode_each(values, classes) ==
    IF values = <<>> THEN Ok(<<>>, classes)
    ELSE LET first == encode_single_value(Head(values), classes)
         IN  IF first.exc # NoExc THEN first
             ELSE LET rest == encode_each(Tail(values), first.classes)
                  IN  IF rest.exc # NoExc THEN rest
                      ELSE Ok(first.out \o rest.out, rest.classes)

\* "Ljava/lang/String;"
JavaLangString == <<76, 106, 97, 118, 97, 47, 108, 97, 110, 103, 47, 83, 116, 114, 105, 110, 103, 59>>

\* path.replace('.', '/')
DotsToSlashes(text) == [i \in 1..Len(text) |-> IF text[i] = 46 THEN 47 ELSE text[i]]

\* lines 85-101: the descriptor of one argument, or the exception
parameter_type(argument) ==
    IF argument.type = "bool" THEN [exc |-> NoExc, out |-> <<90>>]
    ELSE IF argument.type = "int"
    THEN [exc |-> NoExc,
          out |-> IF ~int_lt(argument, MIN_INT_32) /\ ~int_gt(argument, MAX_INT_32)
                  THEN <<73>> ELSE <<74>>]
    ELSE IF argument.type = "float" THEN [exc |-> NoExc, out |-> <<68>>]
    ELSE IF argument.type = "str" THEN [exc |-> NoExc, out |-> JavaLangString]
    ELSE IF argument.type = "Object"
    THEN [exc |-> NoExc, out |-> <<76>> \o DotsToSlashes(argument.path) \o <<59>>]
    ELSE [exc |-> HessianTypeError, out |-> <<>>]

RECURSIVE get_parameter_types(_)
\* lines 75-102
get_parameter_types(arguments) ==
    IF arguments = <<>> THEN [exc |-> NoExc, out |-> <<>>]
    ELSE LET first == parameter_type(Head(arguments))
         IN  IF first.exc # NoExc THEN first
             ELSE LET rest == get_parameter_types(Tail(arguments))
                  IN  IF rest.exc # NoExc THEN rest
                      ELSE [exc |-> NoExc, out |-> first.out \o rest.out]

\* the text of a dict key of the request and of the attachments
KeyText(key) ==
    CASE key = "path" -> <<112, 97, 116, 104>>
      [] key = "interface" -> <<105, 110, 116, 101, 114, 102, 97, 99, 101>>
      [] key = "version" -> <<118, 101, 114, 115, 105, 111, 110>>

\* lines 124-128: the keys of the attachments dict, in insertion order
AttachmentKeys == <<"path", "interface", "version">>

\* lines 138-139: body[i] & 0xff
MaskBytes(body) == [i \in 1..Len(body) |-> body[i] % 256]

\* lines 124-136: the attachments, in the order of AttachmentKeys
attachment_pairs(request) ==
    [i \in 1..(2 * Len(AttachmentKeys)) |->
        IF i % 2 = 1 THEN PyStr(KeyText(AttachmentKeys[(i + 1) \div 2]))
        ELSE IF AttachmentKeys[i \div 2] = "version" THEN request["version"]
        ELSE request["path"]]

\* lines 131-140: 'H', the attachments att, 'Z', and every byte & 0xff
body_with_attachments(before, att) ==
    IF att.exc # NoExc THEN att
    ELSE Ok(MaskBytes(before \o <<72>> \o att.out \o <<90>>), att.classes)

\* lines 120-136: after the parameter types and the arguments args
body_after_arguments(request, head, args) ==
    IF args.exc # NoExc THEN args
    ELSE body_with_attachments(head.out \o args.out,
                               encode_each(attachment_pairs(request), args.classes))

\* lines 120-122: after the parameter types
body_after_types(request, head, types) ==
    IF types.exc # NoExc THEN Raised(types.exc, head.classes)
    ELSE body_after_arguments(request, head,
                              encode_each(<<PyStr(types.out)>> \o request["arguments"],
                                          head.classes))

\* line 120: after the four strings of the head
body_after_head(request, head) ==
    IF head.exc # NoExc THEN head
    ELSE body_after_types(request, head, get_parameter_types(request["arguments"]))

\* lines 104-140; request is the dict the Request was built from
encode_request_body(request, classes) ==
    IF ~({"dubbo_version", "path", "version", "method", "arguments"} \subseteq DOMAIN request)
    THEN Raised(KeyError, classes)
    ELSE body_after_head(request,
                         encode_each(<<request["dubbo_version"], request["path"],
                                       request["version"], request["method"]>>, classes))

\* dubbo/common/util.py num_2_byte_list: the big-endian bytes of a number
RECURSIVE num_2_byte_list(_)
num_2_byte_list(num) ==
    IF num < 256 THEN <<num>> ELSE Append(num_2_byte_list(num \div 256), num % 256)

RECURSIVE PadTo4(_)
PadTo4(bytes) == IF Len(bytes) < 4 THEN PadTo4(<<0>> \o bytes) ELSE bytes

\* lines 263-273
get_request_body_length_unpadded(body) == num_2_byte_list(Len(body))
get_request_body_length(body) == PadTo4(num_2_byte_list(Len(body)))

\* every Request shares one class table with the Requests made before it
new_request_classes_shared(before) == before

\* line 64: self.__classes = [], whatever the Requests made before hold
new_request_classes(before) == <<>>

\* lines 70-72: the header, the length of the body and the body
request_frame(request_body) ==
    IF request_body.exc # NoExc THEN request_body
    ELSE Ok(DEFAULT_REQUEST_META \o get_request_body_length(request_body.out)
                \o request_body.out,
            request_body.classes)

\* lines 66-73: Request(request).encode() on a Request whose class table is classes
encode(request, classes) == request_frame(encode_request_body(request, classes))

----------------------------------------------------------------------------
(* DubboClient, client.py 39-112.  The client is the record of its private
   fields; zk_register is TRUE when a ZkRegister was given. *)

\* line 52: not zk_register and not host
client_init_raises_either(client) == ~client.zk_register \/ ~ValueTruthy(client.host)
client_init_raises(client) == ~client.zk_register /\ ~ValueTruthy(client.host)

\* lines 83-84: a list or tuple is the argument list, anything else is wrapped
call_arguments(args) == IF args.type \in {"list", "tuple"} THEN args.val ELSE <<args>>

\* lines 92-103: request_param
request_param(client, method, args) ==
    [k \in {"dubbo_version", "path", "method", "arguments"}
           \cup (IF ValueTruthy(client.group) THEN {"group"} ELSE {})
           \cup (IF ValueTruthy(client.version) THEN {"version"} ELSE {}) |->
        CASE k = "dubbo_version" -> PyStr(client.dubbo_version)
          [] k = "path" -> PyStr(client.interface)
          [] k = "method" -> PyStr(method)
          [] k = "arguments" -> call_arguments(args)
          [] k = "group" -> client.group
          [] k = "version" -> client.version]

\* dubbo/connection/connections.py connection_pool.get: a Request is built
\* from request_param and encoded, and the frame is sent to the host
pool_get(host, param) == encode(param, <<>>)

----------------------------------------------------------------------------
(* Bounds *)

\* longest host list handed to the routing function
MaxHosts == 3
\* longest provider listing handed to the filter
MaxListing == 2
\* calls of get_provider_host, over all caller threads
MaxCalls == 3
\* changes of the children of the interface's znodes
MaxChanges == 2
\* ZooKeeper operations that raise
MaxFailures == 1

----------------------------------------------------------------------------
(* ZkRegister and its ZooKeeper client, client.py 115-337, for one interface.
   kazoo keeps the watchers of a path in a set and removes them when the
   watch fires; every closure returned by _warp_watch is a new function, and
   the bound method self._watch_configurators is equal to itself.  A fired
   watcher is run by kazoo's single callback thread, which logs an exception
   raised by it. *)

Threads == {"t1", "t2"}
NoThread == ""
ZookeeperError == "ZookeeperError"
Exceptions == {RegisterException, ValueError, ZookeeperError}

\* the (group, version) a DubboClient hands to get_provider_host
Criteria == [group : {<<"g1">>, <<"g2">>}, version : {NoneStr}]

\* every caller thread calls through a DubboClient of its own, line 87
ClientOf(t) ==
    IF t = "t1" THEN [group |-> <<"g1">>, version |-> NoneStr]
    ELSE [group |-> <<"g2">>, version |-> NoneStr]

ProvA == [scheme |-> "dubbo", host |-> "A:1", group |-> <<"g1">>,
          default_group |-> NoneStr, version |-> <<"1.0">>]
ProvB == [scheme |-> "dubbo", host |-> "B:1", group |-> <<"g1">>,
          default_group |-> NoneStr, version |-> <<"1.0">>]
ProvC == [scheme |-> "dubbo", host |-> "C:1", group |-> <<"g2">>,
          default_group |-> NoneStr, version |-> <<"1.0">>]
ProvX == [scheme |-> "empty", host |-> "X:1", group |-> <<"g2">>,
          default_group |-> NoneStr, version |-> <<"1.0">>]

\* the children of /dubbo/I/providers, parsed: two providers of group g1, or
\* one provider of group g2 behind an entry that is not a dubbo provider
ProviderListings == {<<ProvA, ProvB>>, <<ProvX, ProvC>>}

Conf(host, fields) == [host |-> host, fields |-> fields]

\* the children of /dubbo/I/configurators, parsed
ConfigListings ==
    {<<>>,
     <<Conf("A:1", [weight |-> 1]), Conf("B:1", [weight |-> 3]),
       Conf("C:1", [weight |-> 2])>>,
     <<Conf("C:1", [weight |-> 0]), Conf("B:1", EmptyDict),
       Conf("A:1", [weight |-> 2])>>}

\* the listings the node starts with; ConfiguratorsChange brings the others
InitialConfigListings ==
    {c \in ConfigListings : \A i \in 1..Len(c) : c[i].fields # [weight |-> 3]}

\* line 184/204: filter(lambda provider: provider['scheme'] == 'dubbo', ...)
dubbo_only(children) ==
    LET is_dubbo(p) == p.scheme = "dubbo" IN SelectSeq(children, is_dubbo)

\* line 191/210: list(map(lambda provider: provider['host'], providers))
hosts_of(providers) == [i \in 1..Len(providers) |-> providers[i].host]

\* lines 184-186 and 204-206: the providers kept of the listed children
kept_providers(children, group, version) ==
    filter_with_group_version(dubbo_only(children), group, version)

RECURSIVE conf_of(_)
\* lines 242-244 and 262-264: conf[configurator['host']] = fields.get('weight', 100)
conf_of(configurators) ==
    IF configurators = <<>> THEN EmptyDict
    ELSE LET n == Len(configurators)
             before == conf_of(SubSeq(configurators, 1, n - 1))
             last == configurators[n]
         IN  [h \in DOMAIN before \cup {last.host} |->
                IF h = last.host THEN DictGet(last.fields, "weight", DefaultWeight)
                ELSE before[h]]

\* d[k] = v
DictPut(d, k, v) == [x \in DOMAIN d \cup {k} |-> IF x = k THEN v ELSE d[x]]

\* the test of line 207 left out
no_providers_unchecked(providers) == FALSE

\* line 207: not providers
no_providers(providers) == providers = <<>>

\* line 158: interface not in self.hosts
not_cached(hosts_) == Interface \notin DOMAIN hosts_

\* the second test left out: the lock holder discovers again
still_not_cached_unchecked(hosts_) == TRUE

\* line 161: the second test, made with the lock held
still_not_cached(hosts_) == Interface \notin DOMAIN hosts_

\* lines 187-191: what _watch_children stores for the providers it kept
watch_children_hosts(providers) == hosts_of(providers)

\* the callback written like _get_configurators_from_zk, lines 240-245: an
\* empty listing leaves the old map
watch_configurators_weights_kept(configurators) ==
    IF configurators = <<>> THEN DictGet(weights, Interface, EmptyDict)
    ELSE conf_of(configurators)

\* lines 260-269: what _watch_configurators stores
watch_configurators_weights(configurators) == conf_of(configurators)

\* lines 183 and 258-259: how many watchers the callback passes to get_children
rearmed_watchers == 1

\* the loop reading self.weights[interface] anew in every iteration
loop_weights_shared(local, shared) == shared

\* line 327: the dict the loop reads the weight of a host from: the local
\* `weights` of line 324, not self.weights
loop_weights(local, shared) == local

\* an exception leaving the try block without the lock being released
finally_release_skipped(holder) == holder

\* lines 168-169: the finally clause releases the lock when the try block of
\* lines 160-167 is left by an exception
finally_release(holder) == NoThread

\* the stand-alone calls below are not running
RouteIdle ==
    /\ r_pc = "off"
    /\ r_hosts = <<>>
    /\ r_weights = EmptyDict
    /\ r_hit = NoHit
    /\ r_result = NoneV

FilterIdle ==
    /\ f_pc = "off"
    /\ f_providers = <<>>
    /\ f_group = NoneStr
    /\ f_version = NoneStr
    /\ f_result = <<>>

CallIdle ==
    /\ c_pc = "off"
    /\ c_client = <<>>
    /\ c_method = <<>>
    /\ c_args = PyNone
    /\ c_host = PyNone
    /\ c_param = EmptyDict
    /\ c_result = Ok(<<>>, <<>>)

EncodeIdle ==
    /\ e_pc = "off"
    /\ e_request = EmptyDict
    /\ e_first = Ok(<<>>, <<>>)
    /\ e_other = Ok(<<>>, <<>>)

IdleThread ==
    [pc |-> "idle", group |-> NoneStr, version |-> NoneStr, after_success |-> FALSE,
     providers |-> <<>>, configurators |-> <<>>,
     hosts |-> <<>>, weights |-> EmptyDict, hw |-> <<>>]

IdleWatcher ==
    [pc |-> "idle", group |-> NoneStr, version |-> NoneStr,
     children |-> <<>>, configurators |-> <<>>]

NoHistory ==
    [listed |-> 0, registered |-> 0, configured |-> 0, failed |-> FALSE,
     cb_failed |-> FALSE, succeeded |-> FALSE, first |-> <<>>,
     stored_by |-> "", concurrent |-> FALSE, returned |-> NoneV]

RegInit ==
    /\ zk \in {z \in [node : BOOLEAN, providers : ProviderListings \cup {<<>>},
                      configurators : ConfigListings] :
                 /\ z.node => z.providers # <<>> /\ z.configurators \in InitialConfigListings
                 /\ ~z.node => z.providers = <<>> /\ z.configurators = <<>>}
    /\ provWatch = [c \in Criteria |-> 0]
    /\ confWatch = FALSE
    /\ cbQueue = <<>>
    /\ hosts = EmptyDict
    /\ weights = EmptyDict
    /\ lock = NoThread
    /\ th = [t \in Threads |-> IdleThread]
    /\ watcher = IdleWatcher
    /\ env = [calls |-> 0, changes |-> 0, failures |-> 0]
    /\ hist = NoHistory

\* the registry right after ZkRegister.__init__, with nothing registered
RegIdle ==
    /\ zk = [node |-> FALSE, providers |-> <<>>, configurators |-> <<>>]
    /\ provWatch = [c \in Criteria |-> 0]
    /\ confWatch = FALSE
    /\ cbQueue = <<>>
    /\ hosts = EmptyDict
    /\ weights = EmptyDict
    /\ lock = NoThread
    /\ th = [t \in Threads |-> IdleThread]
    /\ watcher = IdleWatcher
    /\ env = [calls |-> 0, changes |-> 0, failures |-> 0]
    /\ hist = NoHistory

OtherVars == <<routeVars, filterVars, callVars, encVars>>

\* the call of thread t returns or raises: its locals are gone
Returned(t) == [th EXCEPT ![t] = IdleThread]

MayFail == env.failures < MaxFailures
Failed == [env EXCEPT !.failures = @ + 1]

Callback(kind, group, version) == [kind |-> kind, group |-> group, version |-> version]

RECURSIVE Repeat(_, _)
Repeat(x, n) == IF n = 0 THEN <<>> ELSE <<x>> \o Repeat(x, n - 1)

RECURSIVE FiredProviderWatches(_, _)
\* the callbacks of the armed provider watchers, taken in the order `order`
FiredProviderWatches(order, armed) ==
    IF order = <<>> THEN <<>>
    ELSE Repeat(Callback("providers", Head(order).group, Head(order).version),
                armed[Head(order)])
         \o FiredProviderWatches(Tail(order), armed)

CriteriaOrders ==
    {o \in [1..Cardinality(Criteria) -> Criteria] :
        \A i, j \in DOMAIN o : o[i] = o[j] => i = j}

ArmedProviderWatches == SumSeq([i \in 1..Cardinality(Criteria) |->
                                  provWatch[(CHOOSE o \in CriteriaOrders : TRUE)[i]]])

PendingCallbacks(kind) ==
    Cardinality({i \in 1..Len(cbQueue) : cbQueue[i].kind = kind})

----------------------------------------------------------------------------
(* The environment: providers and configurators come and go *)

\* the children of the providers path change (the path is created first when
\* it does not exist); a fired child watch hands every armed watcher to the
\* callback thread
ProvidersChange ==
    /\ env.changes < MaxChanges
    /\ \E children \in ProviderListings :
         /\ zk.node => children # zk.providers
         /\ zk' = [zk EXCEPT !.node = TRUE, !.providers = children]
    /\ \E order \in CriteriaOrders :
         cbQueue' = cbQueue \o FiredProviderWatches(order, provWatch)
    /\ provWatch' = [c \in Criteria |-> 0]
    /\ env' = [env EXCEPT !.changes = @ + 1]
    /\ UNCHANGED <<confWatch, hosts, weights, lock, th, watcher, hist, OtherVars>>

ConfiguratorsChange ==
    /\ env.changes < MaxChanges
    /\ \E children \in ConfigListings :
         /\ children # zk.configurators
         /\ zk' = [zk EXCEPT !.configurators = children]
    /\ cbQueue' = IF confWatch
                  THEN Append(cbQueue, Callback("configurators", NoneStr, NoneStr))
                  ELSE cbQueue
    /\ confWatch' = FALSE
    /\ env' = [env EXCEPT !.changes = @ + 1]
    /\ UNCHANGED <<provWatch, hosts, weights, lock, th, watcher, hist, OtherVars>>

----------------------------------------------------------------------------
(* ZkRegister.get_provider_host, lines 150-170, one step per shared access *)

\* line 158, the interface is cached: straight to the routing
CallCached(t) ==
    /\ th[t].pc = "idle"
    /\ env.calls < MaxCalls
    /\ env' = [env EXCEPT !.calls = @ + 1]
    /\ ~not_cached(hosts)
    /\ LET c == ClientOf(t) IN
         th' = [th EXCEPT ![t] =
                  [IdleThread EXCEPT !.pc = "route", !.group = c.group,
                                     !.version = c.version,
                                     !.after_success = hist.succeeded]]
    /\ UNCHANGED <<zk, provWatch, confWatch, cbQueue, hosts, weights, lock, watcher,
                   hist, OtherVars>>

\* line 158, the interface is not cached: on to the lock
CallNotCached(t) ==
    /\ th[t].pc = "idle"
    /\ env.calls < MaxCalls
    /\ env' = [env EXCEPT !.calls = @ + 1]
    /\ not_cached(hosts)
    /\ LET c == ClientOf(t) IN
         th' = [th EXCEPT ![t] =
                  [IdleThread EXCEPT !.pc = "acquire", !.group = c.group,
                                     !.version = c.version,
                                     !.after_success = hist.succeeded]]
    /\ hist' = [hist EXCEPT
                  !.concurrent = @ \/ \E u \in Threads \ {t} : th[u].pc # "idle"]
    /\ UNCHANGED <<zk, provWatch, confWatch, cbQueue, hosts, weights, lock, watcher,
                   OtherVars>>

\* lines 159-161 and 169: the lock is taken, another thread has cached the
\* interface meanwhile, the lock is released
LockedCached(t) ==
    /\ th[t].pc = "acquire"
    /\ lock = NoThread
    /\ ~still_not_cached(hosts)
    /\ th' = [th EXCEPT ![t].pc = "route"]
    /\ UNCHANGED <<zk, provWatch, confWatch, cbQueue, hosts, weights, lock, watcher, env,
                   hist, OtherVars>>

\* lines 159-163: the lock is taken and the providers path exists
LockedExists(t) ==
    /\ th[t].pc = "acquire"
    /\ lock = NoThread
    /\ still_not_cached(hosts)
    /\ zk.node
    /\ lock' = t
    /\ th' = [th EXCEPT ![t].pc = "providers"]
    /\ UNCHANGED <<zk, provWatch, confWatch, cbQueue, hosts, weights, watcher, env,
                   hist, OtherVars>>

\* lines 159-169: the providers path does not exist
LockedNoNode(t) ==
    /\ th[t].pc = "acquire"
    /\ lock = NoThread
    /\ still_not_cached(hosts)
    /\ ~zk.node
    /\ lock' = finally_release(t)
    /\ th' = Returned(t)
    /\ hist' = [hist EXCEPT !.returned = RegisterException, !.failed = TRUE]
    /\ UNCHANGED <<zk, provWatch, confWatch, cbQueue, hosts, weights, watcher, env,
                   OtherVars>>

\* lines 159-169: zk.exists raises
LockedExistsRaises(t) ==
    /\ th[t].pc = "acquire"
    /\ lock = NoThread
    /\ still_not_cached(hosts)
    /\ MayFail
    /\ env' = Failed
    /\ lock' = finally_release(t)
    /\ th' = Returned(t)
    /\ hist' = [hist EXCEPT !.returned = ZookeeperError, !.failed = TRUE]
    /\ UNCHANGED <<zk, provWatch, confWatch, cbQueue, hosts, weights, watcher,
                   OtherVars>>


\* line 203-208: the children are listed and the watch is armed, no child is
\* kept, the call raises with the watch left armed; line 169 releases the lock
ProvidersNone(t) ==
    /\ th[t].pc = "providers"
    /\ LET c == [group |-> th[t].group, version |-> th[t].version]
           providers == kept_providers(zk.providers, c.group, c.version)
       IN  /\ no_providers(providers)
           /\ provWatch' = [provWatch EXCEPT ![c] = @ + 1]
    /\ lock' = finally_release(lock)
    /\ th' = Returned(t)
    /\ hist' = [hist EXCEPT !.returned = RegisterException, !.listed = @ + 1, !.failed = TRUE]
    /\ UNCHANGED <<zk, confWatch, cbQueue, hosts, weights, watcher, env, OtherVars>>

\* lines 203-209: the children are listed and the watch is armed, some child
\* is kept, the consumer is registered
ProvidersListed(t) ==
    /\ th[t].pc = "providers"
    /\ LET c == [group |-> th[t].group, version |-> th[t].version]
           providers == kept_providers(zk.providers, c.group, c.version)
       IN  /\ ~no_providers(providers)
           /\ provWatch' = [provWatch EXCEPT ![c] = @ + 1]
           /\ th' = [th EXCEPT ![t].pc = "store_hosts", ![t].providers = providers]
    /\ hist' = [hist EXCEPT !.listed = @ + 1, !.registered = @ + 1]
    /\ UNCHANGED <<zk, confWatch, cbQueue, hosts, weights, lock, watcher, env,
                   OtherVars>>

\* line 203: get_children raises, no watch is armed
ProvidersListRaises(t) ==
    /\ th[t].pc = "providers"
    /\ MayFail
    /\ env' = Failed
    /\ lock' = finally_release(lock)
    /\ th' = Returned(t)
    /\ hist' = [hist EXCEPT !.returned = ZookeeperError, !.failed = TRUE]
    /\ UNCHANGED <<zk, provWatch, confWatch, cbQueue, hosts, weights, watcher,
                   OtherVars>>

\* lines 203-209: the children are listed and the watch is armed, some child
\* is kept, ensure_path of _register_consumer raises
RegisterConsumerRaises(t) ==
    /\ th[t].pc = "providers"
    /\ MayFail
    /\ LET c == [group |-> th[t].group, version |-> th[t].version]
           providers == kept_providers(zk.providers, c.group, c.version)
       IN  /\ ~no_providers(providers)
           /\ provWatch' = [provWatch EXCEPT ![c] = @ + 1]
    /\ env' = Failed
    /\ lock' = finally_release(lock)
    /\ th' = Returned(t)
    /\ hist' = [hist EXCEPT !.returned = ZookeeperError, !.listed = @ + 1, !.failed = TRUE]
    /\ UNCHANGED <<zk, confWatch, cbQueue, hosts, weights, watcher, OtherVars>>

\* line 210: self.hosts[interface] = the hosts of the kept providers
StoreHosts(t) ==
    /\ th[t].pc = "store_hosts"
    /\ hosts' = DictPut(hosts, Interface, hosts_of(th[t].providers))
    /\ th' = [th EXCEPT ![t].pc = "configurators"]
    /\ hist' = [hist EXCEPT
                  !.first = IF @ = <<>>
                            THEN <<[group |-> th[t].group, version |-> th[t].version]>>
                            ELSE @,
                  !.stored_by = "discovery"]
    /\ UNCHANGED <<zk, provWatch, confWatch, cbQueue, weights, lock, watcher, env,
                   OtherVars>>

\* line 239: the configurators are listed and _watch_configurators is armed
ConfiguratorsListed(t) ==
    /\ th[t].pc = "configurators"
    /\ confWatch' = TRUE
    /\ th' = [th EXCEPT ![t].pc = "store_weights", ![t].configurators = zk.configurators]
    /\ hist' = [hist EXCEPT !.configured = @ + 1]
    /\ UNCHANGED <<zk, provWatch, cbQueue, hosts, weights, lock, watcher, env,
                   OtherVars>>

\* line 239: get_children raises, line 169 releases the lock
ConfiguratorsListRaises(t) ==
    /\ th[t].pc = "configurators"
    /\ MayFail
    /\ env' = Failed
    /\ lock' = finally_release(lock)
    /\ th' = Returned(t)
    /\ hist' = [hist EXCEPT !.returned = ZookeeperError, !.failed = TRUE]
    /\ UNCHANGED <<zk, provWatch, confWatch, cbQueue, hosts, weights, watcher,
                   OtherVars>>

\* lines 240-245 and 169: some configurator is listed, the weight map is
\* stored, the lock is released
StoreWeights(t) ==
    /\ th[t].pc = "store_weights"
    /\ th[t].configurators # <<>>
    /\ weights' = DictPut(weights, Interface, conf_of(th[t].configurators))
    /\ lock' = NoThread
    /\ th' = [th EXCEPT ![t].pc = "route"]
    /\ UNCHANGED <<zk, provWatch, confWatch, cbQueue, hosts, watcher, env, hist,
                   OtherVars>>

\* lines 240 and 169: no configurator is listed, self.weights is left alone,
\* the lock is released
StoreNoWeights(t) ==
    /\ th[t].pc = "store_weights"
    /\ th[t].configurators = <<>>
    /\ lock' = NoThread
    /\ th' = [th EXCEPT ![t].pc = "route"]
    /\ UNCHANGED <<zk, provWatch, confWatch, cbQueue, hosts, weights, watcher, env,
                   hist, OtherVars>>

----------------------------------------------------------------------------
(* ZkRegister._routing_with_wight, lines 311-334, inside get_provider_host:
   one step per read of self.hosts and self.weights *)

\* lines 317-319: self.hosts[interface] is empty
RouteNoProviders(t) ==
    /\ th[t].pc = "route"
    /\ hosts[Interface] = <<>>
    /\ th' = Returned(t)
    /\ hist' = [hist EXCEPT !.returned = RegisterException]
    /\ UNCHANGED <<zk, provWatch, confWatch, cbQueue, hosts, weights, lock, watcher,
                   env, OtherVars>>

\* line 317: hosts = self.hosts[interface]
RouteReadHosts(t) ==
    /\ th[t].pc = "route"
    /\ hosts[Interface] # <<>>
    /\ th' = [th EXCEPT ![t].pc = "route_check", ![t].hosts = hosts[Interface]]
    /\ UNCHANGED <<zk, provWatch, confWatch, cbQueue, hosts, weights, lock, watcher,
                   env, hist, OtherVars>>

\* lines 321-322: no weights, random.choice(hosts)
RouteChoice(t) ==
    /\ th[t].pc = "route_check"
    /\ no_weights(weights, Interface)
    /\ \E i \in 1..Len(th[t].hosts) :
         hist' = [hist EXCEPT !.returned = th[t].hosts[i], !.succeeded = TRUE]
    /\ th' = Returned(t)
    /\ UNCHANGED <<zk, provWatch, confWatch, cbQueue, hosts, weights, lock, watcher,
                   env, OtherVars>>

\* line 321: the interface has a non-empty weight map
RouteHasWeights(t) ==
    /\ th[t].pc = "route_check"
    /\ ~no_weights(weights, Interface)
    /\ th' = [th EXCEPT ![t].pc = "route_weights"]
    /\ UNCHANGED <<zk, provWatch, confWatch, cbQueue, hosts, weights, lock, watcher,
                   env, hist, OtherVars>>

\* line 324: weights = self.weights[interface]
RouteReadWeights(t) ==
    /\ th[t].pc = "route_weights"
    /\ th' = [th EXCEPT ![t].pc = "route_loop", ![t].weights = weights[Interface],
                        ![t].hw = <<>>]
    /\ UNCHANGED <<zk, provWatch, confWatch, cbQueue, hosts, weights, lock, watcher,
                   env, hist, OtherVars>>

\* lines 326-327: one iteration, hosts_weight.append(int(weights.get(host, 100)))
RouteLoop(t) ==
    /\ th[t].pc = "route_loop"
    /\ Len(th[t].hw) < Len(th[t].hosts)
    /\ LET host == th[t].hosts[Len(th[t].hw) + 1]
           from == loop_weights(th[t].weights, weights[Interface])
       IN  th' = [th EXCEPT ![t].hw = Append(@, DictGet(from, host, DefaultWeight))]
    /\ UNCHANGED <<zk, provWatch, confWatch, cbQueue, hosts, weights, lock, watcher,
                   env, hist, OtherVars>>

\* lines 329-334: hit = random.randint(0, sum(hosts_weight) - 1) and the
\* selection loop
RouteHit(t) ==
    /\ th[t].pc = "route_loop"
    /\ Len(th[t].hw) = Len(th[t].hosts)
    /\ SumSeq(th[t].hw) >= 1
    /\ \E result \in {select_by_hit(th[t].hosts, th[t].hw, hit) :
                          hit \in 0..(SumSeq(th[t].hw) - 1)} :
         hist' = [hist EXCEPT !.returned = result,
                              !.succeeded = @ \/ result \notin Exceptions]
    /\ th' = Returned(t)
    /\ UNCHANGED <<zk, provWatch, confWatch, cbQueue, hosts, weights, lock, watcher,
                   env, OtherVars>>

\* line 329: the weights sum to 0, random.randint(0, -1) raises ValueError
RouteHitEmptyRange(t) ==
    /\ th[t].pc = "route_loop"
    /\ Len(th[t].hw) = Len(th[t].hosts)
    /\ SumSeq(th[t].hw) < 1
    /\ th' = Returned(t)
    /\ hist' = [hist EXCEPT !.returned = ValueError]
    /\ UNCHANGED <<zk, provWatch, confWatch, cbQueue, hosts, weights, lock, watcher,
                   env, OtherVars>>

----------------------------------------------------------------------------
(* The watch callbacks, lines 172-194 and 247-269, run by kazoo's callback
   thread one at a time, without self.lock *)

\* line 183: the children are listed again with a new closure as the watcher
WatchChildrenListed ==
    /\ watcher.pc = "idle"
    /\ cbQueue # <<>>
    /\ Head(cbQueue).kind = "providers"
    /\ LET c == [group |-> Head(cbQueue).group, version |-> Head(cbQueue).version]
       IN  /\ provWatch' = [provWatch EXCEPT ![c] = @ + rearmed_watchers]
           /\ watcher' = [IdleWatcher EXCEPT !.pc = "store_hosts", !.group = c.group,
                                            !.version = c.version,
                                            !.children = zk.providers]
    /\ cbQueue' = Tail(cbQueue)
    /\ UNCHANGED <<zk, confWatch, hosts, weights, lock, th, env, hist, OtherVars>>

\* lines 183-184: an exception leaves _watch_children before line 188 or 190
\* assigns self.hosts[interface]
failed_watch_children_hosts_cleared(previous) == DictPut(previous, Interface, <<>>)
failed_watch_children_hosts(previous) == previous

\* lines 258-261: an exception leaves _watch_configurators before line 266 or
\* 269 assigns self.weights[interface]
failed_watch_configurators_weights(previous) == previous

\* line 183: get_children raises, kazoo logs the exception, no watch is armed
WatchChildrenListRaises ==
    /\ watcher.pc = "idle"
    /\ cbQueue # <<>>
    /\ Head(cbQueue).kind = "providers"
    /\ MayFail
    /\ env' = Failed
    /\ cbQueue' = Tail(cbQueue)
    /\ hosts' = failed_watch_children_hosts(hosts)
    /\ hist' = [hist EXCEPT !.cb_failed = TRUE]
    /\ UNCHANGED <<zk, provWatch, confWatch, weights, lock, th, watcher, OtherVars>>

\* lines 183-184: the children are listed again, the new closure is armed,
\* and parse_url raises on one of them; kazoo logs the exception
WatchChildrenParseRaises ==
    /\ watcher.pc = "idle"
    /\ cbQueue # <<>>
    /\ Head(cbQueue).kind = "providers"
    /\ zk.providers # <<>>
    /\ MayFail
    /\ env' = Failed
    /\ LET c == [group |-> Head(cbQueue).group, version |-> Head(cbQueue).version]
       IN  provWatch' = [provWatch EXCEPT ![c] = @ + rearmed_watchers]
    /\ cbQueue' = Tail(cbQueue)
    /\ hosts' = failed_watch_children_hosts(hosts)
    /\ hist' = [hist EXCEPT !.cb_failed = TRUE]
    /\ UNCHANGED <<zk, confWatch, weights, lock, th, watcher, OtherVars>>

\* lines 184-191: self.hosts[interface] = the hosts of the kept providers, or []
WatchChildrenStore ==
    /\ watcher.pc = "store_hosts"
    /\ LET providers == kept_providers(watcher.children, watcher.group, watcher.version)
       IN  hosts' = DictPut(hosts, Interface, watch_children_hosts(providers))
    /\ watcher' = IdleWatcher
    /\ hist' = [hist EXCEPT !.stored_by = "watch"]
    /\ UNCHANGED <<zk, provWatch, confWatch, cbQueue, weights, lock, th, env,
                   OtherVars>>

\* lines 258-259: the configurators are listed again with the same watcher
WatchConfiguratorsListed ==
    /\ watcher.pc = "idle"
    /\ cbQueue # <<>>
    /\ Head(cbQueue).kind = "configurators"
    /\ confWatch' = (rearmed_watchers > 0)
    /\ watcher' = [IdleWatcher EXCEPT !.pc = "store_weights",
                                     !.configurators = zk.configurators]
    /\ cbQueue' = Tail(cbQueue)
    /\ UNCHANGED <<zk, provWatch, hosts, weights, lock, th, env, hist, OtherVars>>

\* lines 258-259: get_children raises, kazoo logs the exception
WatchConfiguratorsListRaises ==
    /\ watcher.pc = "idle"
    /\ cbQueue # <<>>
    /\ Head(cbQueue).kind = "configurators"
    /\ MayFail
    /\ env' = Failed
    /\ cbQueue' = Tail(cbQueue)
    /\ weights' = failed_watch_configurators_weights(weights)
    /\ hist' = [hist EXCEPT !.cb_failed = TRUE]
    /\ UNCHANGED <<zk, provWatch, confWatch, hosts, lock, th, watcher, OtherVars>>

\* lines 258-264: the configurators are listed again with the same watcher,
\* and parse_url or the read of a parsed configurator raises
WatchConfiguratorsParseRaises ==
    /\ watcher.pc = "idle"
    /\ cbQueue # <<>>
    /\ Head(cbQueue).kind = "configurators"
    /\ zk.configurators # <<>>
    /\ MayFail
    /\ env' = Failed
    /\ confWatch' = (rearmed_watchers > 0)
    /\ cbQueue' = Tail(cbQueue)
    /\ weights' = failed_watch_configurators_weights(weights)
    /\ hist' = [hist EXCEPT !.cb_failed = TRUE]
    /\ UNCHANGED <<zk, provWatch, hosts, lock, th, watcher, OtherVars>>

\* lines 260-269: self.weights[interface] = conf, or {}
WatchConfiguratorsStore ==
    /\ watcher.pc = "store_weights"
    /\ LET conf == watch_configurators_weights(watcher.configurators)
       IN  weights' = DictPut(weights, Interface, conf)
    /\ watcher' = IdleWatcher
    /\ UNCHANGED <<zk, provWatch, confWatch, cbQueue, hosts, lock, th, env, hist,
                   OtherVars>>

Next ==
    \/ ProvidersChange
    \/ ConfiguratorsChange
    \/ \E t \in Threads :
         \/ CallCached(t)
         \/ CallNotCached(t)
         \/ LockedCached(t)
         \/ LockedExists(t)
         \/ LockedNoNode(t)
         \/ LockedExistsRaises(t)
         \/ ProvidersNone(t)
         \/ ProvidersListed(t)
         \/ ProvidersListRaises(t)
         \/ RegisterConsumerRaises(t)
         \/ StoreHosts(t)
         \/ ConfiguratorsListed(t)
         \/ ConfiguratorsListRaises(t)
         \/ StoreWeights(t)
         \/ StoreNoWeights(t)
         \/ RouteNoProviders(t)
         \/ RouteReadHosts(t)
         \/ RouteChoice(t)
         \/ RouteHasWeights(t)
         \/ RouteReadWeights(t)
         \/ RouteLoop(t)
         \/ RouteHit(t)
         \/ RouteHitEmptyRange(t)
    \/ WatchChildrenListed
    \/ WatchChildrenListRaises
    \/ WatchChildrenParseRaises
    \/ WatchChildrenStore
    \/ WatchConfiguratorsListed
    \/ WatchConfiguratorsListRaises
    \/ WatchConfiguratorsParseRaises
    \/ WatchConfiguratorsStore

Init ==
    /\ RegInit
    /\ RouteIdle
    /\ FilterIdle
    /\ CallIdle
    /\ EncodeIdle

Spec == Init /\ [][Next]_vars

----------------------------------------------------------------------------
(* The routing function on its own: one call per behaviour *)

RouteHosts == {"A:1", "B:1"}
RouteWeights == {0, 1, 3}

RouteInit ==
    /\ r_pc = "call"
    /\ r_hosts \in SeqsOf(RouteHosts, 0, MaxHosts)
    /\ r_weights \in {EmptyDict} \cup {Interface :> m : m \in DictsOf(RouteHosts, RouteWeights)}
    /\ r_hit = NoHit
    /\ r_result = NoneV
    /\ FilterIdle
    /\ CallIdle
    /\ RegIdle
    /\ EncodeIdle

\* lines 317-319: no host
RouteNoHosts ==
    /\ r_pc = "call"
    /\ r_hosts = <<>>
    /\ r_pc' = "done"
    /\ r_result' = RegisterException
    /\ UNCHANGED <<r_hosts, r_weights, r_hit, filterVars, callVars, regVars, encVars>>

\* lines 321-322: random.choice(hosts)
RouteNaive ==
    /\ r_pc = "call"
    /\ r_hosts # <<>>
    /\ no_weights(r_weights, Interface)
    /\ r_pc' = "done"
    /\ \E i \in 1..Len(r_hosts) : r_result' = r_hosts[i]
    /\ UNCHANGED <<r_hosts, r_weights, r_hit, filterVars, callVars, regVars, encVars>>

\* lines 324-334: random.randint(0, sum - 1), then the selection loop
RouteWeighted ==
    /\ r_pc = "call"
    /\ r_hosts # <<>>
    /\ ~no_weights(r_weights, Interface)
    /\ LET hw == hosts_weight(r_hosts, r_weights[Interface])
       IN  /\ SumSeq(hw) >= 1
           /\ \E hit \in 0..(SumSeq(hw) - 1) :
                /\ r_hit' = hit
                /\ r_result' = select_by_hit(r_hosts, hw, hit)
    /\ r_pc' = "done"
    /\ UNCHANGED <<r_hosts, r_weights, filterVars, callVars, regVars, encVars>>

\* line 329: random.randint(0, -1) raises ValueError (empty range)
RouteEmptyRange ==
    /\ r_pc = "call"
    /\ r_hosts # <<>>
    /\ ~no_weights(r_weights, Interface)
    /\ SumSeq(hosts_weight(r_hosts, r_weights[Interface])) < 1
    /\ r_pc' = "done"
    /\ r_result' = ValueError
    /\ UNCHANGED <<r_hosts, r_weights, r_hit, filterVars, callVars, regVars, encVars>>

RouteNext ==
    \/ RouteNoHosts
    \/ RouteNaive
    \/ RouteWeighted
    \/ RouteEmptyRange

SpecRouting == RouteInit /\ [][RouteNext]_vars

----------------------------------------------------------------------------
(* The provider filter on its own *)

FilterGroups == {NoneStr, <<"g1">>, <<"g2">>}
FilterVersions == {NoneStr, <<"1.0">>, <<"2.0">>}
FilterProviders ==
    [scheme : {"dubbo"}, host : {"A:1"}, group : FilterGroups,
     default_group : {NoneStr, <<"g1">>}, version : FilterVersions]
ConsumerGroups == {NoneStr, Star, EmptyStr, <<"g1">>, <<"g1", "g2">>}
ConsumerVersions == {NoneStr, Star, <<"1.0">>, <<"1.0", "2.0">>}

FilterInit ==
    /\ f_pc = "call"
    /\ f_providers \in SeqsOf(FilterProviders, 0, MaxListing)
    /\ f_group \in ConsumerGroups
    /\ f_version \in ConsumerVersions
    /\ f_result = <<>>
    /\ RouteIdle
    /\ CallIdle
    /\ RegIdle
    /\ EncodeIdle

FilterApply ==
    /\ f_pc = "call"
    /\ f_pc' = "done"
    /\ f_result' = filter_with_group_version(f_providers, f_group, f_version)
    /\ UNCHANGED <<f_providers, f_group, f_version, routeVars, callVars, regVars, encVars>>

FilterNext == FilterApply

SpecFilter == FilterInit /\ [][FilterNext]_vars

----------------------------------------------------------------------------
(* One DubboClient and one call *)

Text_2_6_1 == <<50, 46, 54, 46, 49>>
Text_Svc == <<97, 46, 83, 118, 99>>
Text_ping == <<112, 105, 110, 103>>
Text_m == <<109>>
Text_1_0 == <<49, 46, 48>>
Text_g == <<103>>
Text_host == <<104, 58, 49>>

\* the args of call(): the default (), scalars, lists and tuples
CallArgs ==
    << [type |-> "tuple", val |-> <<>>],
       PyInt(42),
       PyLong(8, 0),
       PyBool(TRUE),
       PyStr(<<115>>),
       PyNone,
       [type |-> "list", val |-> <<PyStr(<<115>>), PyInt(0 - 17)>>],
       [type |-> "tuple", val |-> <<[type |-> "list", val |-> <<PyStr(<<115>>)>>]>>] >>

CallVersions == <<PyNone, PyStr(<<>>), PyStr(Text_1_0)>>
CallGroups == <<PyNone, PyStr(Text_g)>>
CallHosts == <<PyNone, PyStr(<<>>), PyStr(Text_host)>>

CallInit ==
    /\ c_pc = "new"
    /\ \E v \in 1..Len(CallVersions), g \in 1..Len(CallGroups),
          h \in 1..Len(CallHosts), reg \in BOOLEAN :
          c_client = [interface |-> Text_Svc, version |-> CallVersions[v],
                      dubbo_version |-> Text_2_6_1, group |-> CallGroups[g],
                      zk_register |-> reg, host |-> CallHosts[h]]
    /\ c_method \in {Text_ping, Text_m}
    /\ \E a \in 1..Len(CallArgs) : c_args = CallArgs[a]
    /\ c_host = PyNone
    /\ c_param = EmptyDict
    /\ c_result = Ok(<<>>, <<>>)
    /\ RouteIdle
    /\ FilterIdle
    /\ RegIdle
    /\ EncodeIdle

\* lines 52-53: neither a registry nor a host
ClientInitRaises ==
    /\ c_pc = "new"
    /\ client_init_raises(c_client)
    /\ c_pc' = "raised"
    /\ c_result' = Raised(RegisterException, <<>>)
    /\ UNCHANGED <<c_client, c_method, c_args, c_host, c_param, routeVars, filterVars, regVars, encVars>>

\* lines 55-62
ClientInit ==
    /\ c_pc = "new"
    /\ ~client_init_raises(c_client)
    /\ c_pc' = "ready"
    /\ UNCHANGED <<c_client, c_method, c_args, c_host, c_param, c_result, routeVars, filterVars, regVars, encVars>>

\* lines 86-87: the registry returns one of its hosts
CallHostFromRegistry ==
    /\ c_pc = "ready"
    /\ c_client.zk_register
    /\ c_host' = PyStr(Text_host)
    /\ c_pc' = "host"
    /\ UNCHANGED <<c_client, c_method, c_args, c_param, c_result, routeVars, filterVars, regVars, encVars>>

\* lines 86-87: the registry raises
CallRegistryRaises ==
    /\ c_pc = "ready"
    /\ c_client.zk_register
    /\ c_pc' = "raised"
    /\ c_result' = Raised(RegisterException, <<>>)
    /\ UNCHANGED <<c_client, c_method, c_args, c_host, c_param, routeVars, filterVars, regVars, encVars>>

\* lines 88-89: the direct host
CallDirectHost ==
    /\ c_pc = "ready"
    /\ ~c_client.zk_register
    /\ c_host' = c_client.host
    /\ c_pc' = "host"
    /\ UNCHANGED <<c_client, c_method, c_args, c_param, c_result, routeVars, filterVars, regVars, encVars>>

\* lines 92-103
CallBuildRequest ==
    /\ c_pc = "host"
    /\ c_param' = request_param(c_client, c_method, c_args)
    /\ c_pc' = "request"
    /\ UNCHANGED <<c_client, c_method, c_args, c_host, c_result, routeVars, filterVars, regVars, encVars>>

\* line 107
CallPoolGet ==
    /\ c_pc = "request"
    /\ c_result' = pool_get(c_host, c_param)
    /\ c_pc' = "sent"
    /\ UNCHANGED <<c_client, c_method, c_args, c_host, c_param, routeVars, filterVars, regVars, encVars>>

CallNext ==
    \/ ClientInitRaises
    \/ ClientInit
    \/ CallHostFromRegistry
    \/ CallRegistryRaises
    \/ CallDirectHost
    \/ CallBuildRequest
    \/ CallPoolGet

SpecCall == CallInit /\ [][CallNext]_vars

----------------------------------------------------------------------------
(* Request.encode on its own: one request dict, encoded by a new Request and
   then by another new Request, or by the same Request once more *)

Text_a_B == <<97, 46, 66>>
Text_a_C == <<97, 46, 67>>
Text_x == <<120>>
Text_y == <<121>>

\* 2^31 and -2^31 - 1
TwoTo31 == PyLong(1, MIN_INT_32)
BelowMinInt32 == PyLong(0 - 1, MAX_INT_32)

Float_1_0 == PyFloat(1, TRUE, 1000, TRUE, <<63, 240, 0, 0, 0, 0, 0, 0>>)
Float_m3_0 == PyFloat(0 - 3, TRUE, 0 - 3000, TRUE, <<192, 8, 0, 0, 0, 0, 0, 0>>)
Float_300_0 == PyFloat(300, TRUE, 300000, TRUE, <<64, 114, 192, 0, 0, 0, 0, 0>>)
Float_1_5 == PyFloat(1, FALSE, 1500, TRUE, <<63, 248, 0, 0, 0, 0, 0, 0>>)
Float_pi == PyFloat(3, FALSE, 3141, FALSE, <<64, 9, 33, 249, 240, 27, 134, 110>>)

Object_B1 == PyObject(Text_a_B, <<Text_x>>, <<PyInt(1)>>)
\* an a.B built with other keys than Object_B1
Object_B2 == PyObject(Text_a_B, <<Text_y, Text_x>>, <<PyStr(Text_y), PyInt(2)>>)
\* an a.C that holds an a.B, and one that holds None
Object_C1 == PyObject(Text_a_C, <<Text_x>>, <<Object_B1>>)
Object_C2 == PyObject(Text_a_C, <<Text_x>>, <<PyNone>>)

\* the values an argument is drawn from
EncodeValues ==
    << PyBool(TRUE), PyBool(FALSE), PyInt(0 - 17), PyInt(MAX_INT_32), TwoTo31,
       BelowMinInt32, Float_1_0, Float_m3_0, Float_300_0, Float_1_5, Float_pi,
       PyStr(Text_x), PyNone, [type |-> "list", val |-> <<PyInt(1)>>],
       Object_B1, Object_B2, Object_C1, Object_C2 >>

\* the int arguments: windows around every boundary of the int forms
Int32Windows ==
    {MIN_INT_32 + k : k \in 0..3} \cup ((0 - 262148) .. (0 - 262140))
    \cup ((0 - 2052) .. (0 - 2044)) \cup ((0 - 260) .. 260) \cup (2044 .. 2052)
    \cup (262140 .. 262148) \cup {MAX_INT_32 - k : k \in 0..3}

\* the int arguments outside the signed 32-bit range, next to it and far away
LongValues ==
    << TwoTo31, BelowMinInt32, PyLong(1, MIN_INT_32 + 1), PyLong(0 - 1, MAX_INT_32 - 1),
       PyLong(8, 0), PyLong(0 - 8, 5) >>

\* MaxClasses + 1 objects of as many classes, to pass class id 15
MaxClasses == 16
ManyClasses == [i \in 1..(MaxClasses + 1) |-> PyObject(<<99, 64 + i>>, <<Text_x>>, <<PyInt(i)>>)]

\* most arguments in one request
MaxArgs == 2

EncodeArguments ==
    {[i \in 1..Len(ix) |-> EncodeValues[ix[i]]] : ix \in SeqsOf(1..Len(EncodeValues), 0, MaxArgs)}
    \cup {<<PyInt(v)>> : v \in Int32Windows}
    \cup {<<LongValues[i]>> : i \in 1..Len(LongValues)}
    \cup {ManyClasses, ManyClasses \o <<ManyClasses[MaxClasses + 1], ManyClasses[1]>>}

EncodeRequest(arguments) ==
    [k \in {"dubbo_version", "path", "version", "method", "arguments"} |->
        CASE k = "dubbo_version" -> PyStr(Text_2_6_1)
          [] k = "path" -> PyStr(Text_Svc)
          [] k = "version" -> PyStr(Text_1_0)
          [] k = "method" -> PyStr(Text_m)
          [] k = "arguments" -> arguments]

EncodeInit ==
    /\ e_pc = "new"
    /\ \E arguments \in EncodeArguments : e_request = EncodeRequest(arguments)
    /\ e_first = Ok(<<>>, <<>>)
    /\ e_other = Ok(<<>>, <<>>)
    /\ RouteIdle
    /\ FilterIdle
    /\ CallIdle
    /\ RegIdle

\* Request(request).encode()
EncodeFirst ==
    /\ e_pc = "new"
    /\ e_first' = encode(e_request, new_request_classes(<<>>))
    /\ e_pc' = "first"
    /\ UNCHANGED <<e_request, e_other, routeVars, filterVars, callVars, regVars>>

\* Request(request).encode() on another new Request, after the first
EncodeOther ==
    /\ e_pc = "first"
    /\ e_other' = encode(e_request, new_request_classes(e_first.classes))
    /\ e_pc' = "other"
    /\ UNCHANGED <<e_request, e_first, routeVars, filterVars, callVars, regVars>>

\* encode() called once more on the Request of EncodeFirst: self.__classes
\* is assigned in __init__ alone (line 63) and is as the first call left it
EncodeAgain ==
    /\ e_pc = "first"
    /\ e_other' = encode(e_request, e_first.classes)
    /\ e_pc' = "again"
    /\ UNCHANGED <<e_request, e_first, routeVars, filterVars, callVars, regVars>>

EncodeNext == EncodeFirst \/ EncodeOther \/ EncodeAgain

SpecEncode == EncodeInit /\ [][EncodeNext]_vars

----------------------------------------------------------------------------
(* A reader of the Hessian forms the encoder uses, to say what a frame means.
   It reads as many values as it is told, and for an object as many field
   values as the object it is compared with holds; it keeps the class
   definitions it has met and the order of definitions and references. *)

ByteAt(b, pos) == IF pos >= 1 /\ pos <= Len(b) THEN b[pos] ELSE 0 - 1

NoRead == [ok |-> FALSE, val |-> PyNone, pos |-> 0, table |-> <<>>, log |-> <<>>]
DidRead(val, pos, table, log) ==
    [ok |-> TRUE, val |-> val, pos |-> pos, table |-> table, log |-> log]

SignedByte(x) == IF x >= 128 THEN x - 256 ELSE x

\* the signed 32-bit word in the 4 bytes from pos
ReadWord(b, pos) ==
    SignedByte(b[pos]) * 16777216 + b[pos + 1] * 65536 + b[pos + 2] * 256 + b[pos + 3]

\* an int in one of its five forms, or nothing
ReadInt(b, pos) ==
    LET c == ByteAt(b, pos)
    IN  IF c >= 128 /\ c <= 191 THEN DidRead(PyInt(c - 144), pos + 1, <<>>, <<>>)
        ELSE IF c >= 192 /\ c <= 207 /\ pos + 1 <= Len(b)
        THEN DidRead(PyInt((c - 200) * 256 + b[pos + 1]), pos + 2, <<>>, <<>>)
        ELSE IF c >= 208 /\ c <= 215 /\ pos + 2 <= Len(b)
        THEN DidRead(PyInt((c - 212) * 65536 + b[pos + 1] * 256 + b[pos + 2]),
                     pos + 3, <<>>, <<>>)
        ELSE IF c = 73 /\ pos + 4 <= Len(b)
        THEN DidRead(PyInt(ReadWord(b, pos + 1)), pos + 5, <<>>, <<>>)
        ELSE IF c = 76 /\ pos + 8 <= Len(b)
        THEN LET hi == ReadWord(b, pos + 1)
                 lo == ReadWord(b, pos + 5)
             IN  DidRead(PyLong(IF lo < 0 THEN hi + 1 ELSE hi, lo), pos + 9, <<>>, <<>>)
        ELSE NoRead

\* n code points in UTF-8, below U+0800
ReadChars(b, pos, n) ==
    IF n <= 0 THEN DidRead(<<>>, pos, <<>>, <<>>)
    ELSE
    LET limit == IF pos + 2 * n <= Len(b) THEN pos + 2 * n ELSE Len(b)
        Starts(i) == b[i] < 128 \/ b[i] >= 192
        starts == SelectSeq([i \in 1..(limit + 1 - pos) |-> pos + i - 1], Starts)
        Width(k) == IF b[starts[k]] < 128 THEN 1 ELSE 2
        end == starts[n] + Width(n)
        Follows(k) == IF k < n THEN starts[k + 1] ELSE end
        Whole(k) == /\ b[starts[k]] < 224
                    /\ Follows(k) = starts[k] + Width(k)
                    /\ Follows(k) <= Len(b) + 1
                    /\ Width(k) = 2 => ~Starts(starts[k] + 1)
    IN  IF pos > Len(b) \/ Len(starts) < n THEN NoRead
        ELSE IF starts[1] # pos \/ \E k \in 1..n : ~Whole(k) THEN NoRead
        ELSE DidRead([k \in 1..n |->
                         IF b[starts[k]] < 128 THEN b[starts[k]]
                         ELSE (b[starts[k]] - 192) * 64 + (b[starts[k] + 1] - 128)],
                     end, <<>>, <<>>)

\* a string in one of its three forms, or nothing
ReadStr(b, pos) ==
    LET c == ByteAt(b, pos)
        chars == IF c >= 0 /\ c <= 31 THEN ReadChars(b, pos + 1, c)
                 ELSE IF c >= 48 /\ c <= 51 /\ pos + 1 <= Len(b)
                 THEN ReadChars(b, pos + 2, (c - 48) * 256 + b[pos + 1])
                 ELSE IF c = 83 /\ pos + 2 <= Len(b)
                 THEN ReadChars(b, pos + 3, b[pos + 1] * 256 + b[pos + 2])
                 ELSE NoRead
    IN  IF chars.ok THEN DidRead(PyStr(chars.val), chars.pos, <<>>, <<>>) ELSE NoRead

RECURSIVE ReadStrs(_, _, _)
ReadStrs(b, pos, n) ==
    IF n <= 0 THEN DidRead(<<>>, pos, <<>>, <<>>)
    ELSE LET first == ReadStr(b, pos)
             rest == ReadStrs(b, first.pos, n - 1)
         IN  IF ~first.ok \/ ~rest.ok THEN NoRead
             ELSE DidRead(<<first.val.val>> \o rest.val, rest.pos, <<>>, <<>>)

\* the length of a double in one of its six forms, or 0
DoubleLength(c) ==
    IF c = BC_DOUBLE_ZERO \/ c = BC_DOUBLE_ONE THEN 1
    ELSE IF c = BC_DOUBLE_BYTE THEN 2
    ELSE IF c = BC_DOUBLE_SHORT THEN 3
    ELSE IF c = BC_DOUBLE_MILL THEN 5
    ELSE IF c = 68 THEN 9
    ELSE 0

ClassEvent(name, fields) ==
    [k |-> "C", name |-> name, id |-> 0 - 1, declared |-> fields, keys |-> fields,
     same |-> TRUE]
RefEvent(name, id, declared, keys, tag) ==
    [k |-> "R", name |-> name, id |-> id, declared |-> declared, keys |-> keys,
     same |-> TRUE, tag |-> tag]
ValueEvent(same, tag, bytes) ==
    [k |-> "V", name |-> <<>>, id |-> 0 - 1, declared |-> <<>>, keys |-> <<>>,
     same |-> same, tag |-> tag, size |-> Len(bytes), bytes |-> bytes]

\* a bool, a double, an int or a string at pos, or nothing
ReadScalar(b, pos, like) ==
    LET c == ByteAt(b, pos)
    IN  IF c = 84 \/ c = 70 THEN DidRead(PyBool(c = 84), pos + 1, <<>>, <<>>)
        ELSE IF DoubleLength(c) > 0
        THEN IF pos + DoubleLength(c) - 1 <= Len(b) /\ like.type = "float"
             THEN DidRead(like, pos + DoubleLength(c), <<>>, <<>>) ELSE NoRead
        ELSE IF ReadInt(b, pos).ok THEN ReadInt(b, pos)
        ELSE ReadStr(b, pos)

\* the reader between two values: its position, the class definitions and
\* the events so far, and the values still expected
Reading(pos, table, log, likes) ==
    [ok |-> TRUE, pos |-> pos, table |-> table, log |-> log, likes |-> likes]
NoReading == [ok |-> FALSE, pos |-> 0, table |-> <<>>, log |-> <<>>, likes |-> <<>>]

\* one class definition, one object reference or one scalar from s.pos; an
\* object is read with as many field values as the expected object holds
ReadStep(b, s) ==
    IF ~s.ok \/ s.likes = <<>> THEN s
    ELSE
    LET pos == s.pos
        c == ByteAt(b, pos)
        like == Head(s.likes)
    IN  IF c = 67
        THEN LET name == ReadStr(b, pos + 1)
                 count == ReadInt(b, name.pos)
                 fields == ReadStrs(b, count.pos, count.val.val)
             IN  IF ~name.ok THEN NoReading
                 ELSE IF ~count.ok THEN NoReading
                 ELSE IF ~fields.ok THEN NoReading
                 ELSE Reading(fields.pos,
                              Append(s.table, [name |-> name.val.val, fields |-> fields.val]),
                              Append(s.log, ClassEvent(name.val.val, fields.val)),
                              s.likes)
        ELSE IF (c >= 96 /\ c <= 111) \/ c = 79
        THEN LET ref == IF c = 79 THEN ReadInt(b, pos + 1)
                        ELSE DidRead(PyInt(c - 96), pos + 1, <<>>, <<>>)
                 id == ref.val.val
             IN  IF ~ref.ok THEN NoReading
                 ELSE IF like.type # "Object" THEN NoReading
                 ELSE IF id < 0 \/ id >= Len(s.table) THEN NoReading
                 ELSE Reading(ref.pos, s.table,
                              Append(s.log, RefEvent(s.table[id + 1].name, id,
                                                     s.table[id + 1].fields, like.keys, c)),
                              like.vals \o Tail(s.likes))
        ELSE LET scalar == ReadScalar(b, pos, like)
             IN  IF ~scalar.ok THEN NoReading
                 ELSE Reading(scalar.pos, s.table,
                              Append(s.log, ValueEvent(IF scalar.val.type = like.type
                                                       THEN scalar.val = like ELSE FALSE,
                                                       c, SubSeq(b, pos, scalar.pos - 1))),
                              Tail(s.likes))

RECURSIVE ReadSteps(_, _, _)
\* n steps of the reader, halved so that a long body is read at a small depth
ReadSteps(b, s, n) ==
    IF n <= 1 THEN ReadStep(b, s)
    ELSE LET half == ReadSteps(b, s, n \div 2)
         IN  IF ~half.ok \/ half.likes = <<>> THEN half
             ELSE ReadSteps(b, half, n - (n \div 2))

\* the body of a frame, after the 16 bytes of the header
FrameBody(frame) == SubSeq(frame, 17, Len(frame))

\* the arguments of a frame: what follows the four strings of the head and
\* the parameter types, read like the arguments of the request
ReadArguments(frame, arguments) ==
    LET b == FrameBody(frame)
        head == ReadStrs(b, 1, 5)
        read == ReadSteps(b, Reading(head.pos, <<>>, <<>>, arguments), Len(b))
    IN  IF ~head.ok THEN NoReading
        ELSE IF read.likes # <<>> THEN NoReading
        ELSE read

----------------------------------------------------------------------------
(* C1: weighted routing returns hosts[i] for the smallest i such that
   hit < w_0 + ... + w_i, so that exactly w_i values of hit select host i
   and a host of weight 0 is never selected. *)

\* the index the claim names (1-based)
ClaimedIndex(hw, hit) ==
    CHOOSE i \in 1..Len(hw) :
        /\ hit < SumSeq(SubSeq(hw, 1, i))
        /\ \A j \in 1..(i - 1) : ~(hit < SumSeq(SubSeq(hw, 1, j)))

C1_WeightedRoutingAsClaimed ==
    (r_pc = "done" /\ r_hit # NoHit) =>
        r_result = r_hosts[ClaimedIndex(hosts_weight(r_hosts, r_weights[Interface]), r_hit)]

----------------------------------------------------------------------------
(* C2: the filter keeps a provider exactly when the group clause AND the
   version clause hold; in particular a provider whose version does not
   match a given consumer version is never kept, whatever the group. *)

GroupMatches(cg, p) ==
    \/ cg = NoneStr
    \/ cg = Star
    \/ p.group = cg
    \/ is_contain(cg, p.group)
    \/ is_contain(cg, p.default_group)

VersionMatches(cv, p) ==
    \/ cv = NoneStr
    \/ cv = Star
    \/ p.version = cv
    \/ is_contain(cv, p.version)

C2_FilterIsConjunction ==
    f_pc = "done" =>
        f_result = LET both(p) == GroupMatches(f_group, p) /\ VersionMatches(f_version, p)
                   IN  SelectSeq(f_providers, both)

----------------------------------------------------------------------------
(* C10: for a client constructed without version and without group,
   call(method) yields a frame: the encoder raises nothing, and the body
   holds, in this order, the dubbo version, the path, the empty string as
   version, the method name, the (empty) parameter-type descriptor, then
   the attachments between 'H' and 'Z'. *)

NoVersionNoArgs ==
    /\ c_client.version.type = "NoneType"
    /\ c_client.group.type = "NoneType"
    /\ c_args.type = "tuple"
    /\ Len(c_args.val) = 0

ClaimedBodyStart ==
    encode_str(c_client.dubbo_version) \o encode_str(c_client.interface)
        \o encode_str(<<>>) \o encode_str(c_method) \o encode_str(<<>>) \o <<72>>

C10_CallWithoutVersionEncodes ==
    (c_pc = "sent" /\ NoVersionNoArgs) =>
        /\ c_result.exc = NoExc
        /\ LET body == SubSeq(c_result.out, 17, Len(c_result.out))
           IN  /\ Len(body) > Len(ClaimedBodyStart)
               /\ SubSeq(body, 1, Len(ClaimedBodyStart)) = ClaimedBodyStart
               /\ body[Len(body)] = 90

----------------------------------------------------------------------------
(* Properties of the registry under concurrent callers and watch callbacks *)

\* the watch callback stores the host list and returns
WatchChildrenReturns == watcher.pc = "store_hosts" /\ watcher'.pc = "idle"

\* the watch callback stores the weight map and returns
WatchConfiguratorsReturns == watcher.pc = "store_weights" /\ watcher'.pc = "idle"

\* thread t leaves get_provider_host in this step
CallReturns(t) == th[t].pc # "idle" /\ th'[t].pc = "idle"

\* C3: after a discovery has stored hosts[I], (a) a provider callback whose
\* filtered listing is empty stores [] and does not raise, (b) a call that
\* finds hosts[I] empty raises RegisterException, and (c) a call that routes
\* over the one-host list stored by a provider callback returns that host.
C3_ProviderListChurn ==
    [][/\ (/\ WatchChildrenReturns
           /\ hist.first # <<>>
           /\ kept_providers(watcher.children, watcher.group, watcher.version) = <<>>)
          => (hosts'[Interface] = <<>> /\ hist'.cb_failed = hist.cb_failed)
       /\ \A t \in Threads :
            (/\ th[t].pc = "route"
             /\ th'[t] # th[t]
             /\ hist.first # <<>>
             /\ hosts[Interface] = <<>>)
            => (th'[t].pc = "idle" /\ hist'.returned = RegisterException)
       /\ \A t \in Threads :
            (/\ CallReturns(t)
             /\ th[t].pc \in {"route_check", "route_loop"}
             /\ hist.first # <<>>
             /\ hist.stored_by = "watch"
             /\ Len(th[t].hosts) = 1
             /\ hosts[Interface] = th[t].hosts)
            => hist'.returned = th[t].hosts[1]
      ]_vars

\* a discovery has listed the configurators and released the lock
DiscoveryDone == hist.configured = 1 /\ lock = NoThread

\* C4: after a discovery has completed, whenever a watch callback has returned
\* and no callback is waiting or has failed, exactly one provider watch and
\* the configurator watch are armed.
C4_WatcherRearming ==
    [][(/\ WatchChildrenReturns \/ WatchConfiguratorsReturns
        /\ DiscoveryDone
        /\ ~hist.cb_failed
        /\ cbQueue' = <<>>)
       => (ArmedProviderWatches' = 1 /\ confWatch')
      ]_vars

\* the steps of get_provider_host that talk to ZooKeeper
ZkSteps == {"acquire", "providers", "store_hosts", "configurators", "store_weights"}

C6_ProviderChangeHandling ==
    [][(WatchChildrenReturns /\ hist.first # <<>>)
       => hosts'[Interface] =
            hosts_of(filter_with_group_version(dubbo_only(watcher.children),
                                               hist.first[1].group,
                                               hist.first[1].version))
      ]_vars

\* one entry per listed configurator host: its weight field, or 100
ClaimedWeights(configurators) ==
    [h \in {configurators[i].host : i \in 1..Len(configurators)} |->
       LET i == CHOOSE j \in 1..Len(configurators) : configurators[j].host = h
       IN  IF "weight" \in DOMAIN configurators[i].fields
           THEN configurators[i].fields.weight
           ELSE 100]

\* C7: when a configurator callback returns, weights[I] holds exactly one
\* entry per listed configurator host, its weight or 100, and nothing else;
\* with no configurator listed it is empty and routing takes the uniform
\* branch.
C7_ConfiguratorChangeHandling ==
    [][WatchConfiguratorsReturns
       => /\ weights'[Interface] = ClaimedWeights(watcher.configurators)
          /\ watcher.configurators = <<>> => no_weights(weights', Interface)
      ]_vars

\* a configurator callback has stored the empty map after the configurators
\* of a discovered interface were removed
C7_AllConfiguratorsRemoved ==
    /\ watcher.pc = "idle"
    /\ cbQueue = <<>>
    /\ hist.configured = 1
    /\ zk.configurators = <<>>
    /\ env.changes > 0
    /\ Interface \in DOMAIN weights
    /\ DOMAIN weights[Interface] = {}

\* thread t completes the discovery in this step
DiscoveryFinishes(t) == th[t].pc = "store_weights" /\ th'[t].pc = "route"

\* the discovery of thread t raises in this step
DiscoveryRaises(t) ==
    th[t].pc \in {"acquire", "providers", "configurators"} /\ th'[t].pc = "idle"

\* no listed child passes the scheme and group/version filters for thread t
NoneSurvives(t) == kept_providers(zk.providers, th[t].group, th[t].version) = <<>>

PublishedHosts ==
    {hosts_of(kept_providers(l, c.group, c.version)) : l \in ProviderListings, c \in Criteria}
PublishedWeights == {conf_of(l) : l \in ConfigListings}

----------------------------------------------------------------------------
(* Properties of Request.encode *)

\* the request has been encoded by a new Request, and a frame came back
FirstEncoded == e_pc \in {"first", "other"} /\ e_first.exc = NoExc

RECURSIVE ObjectPaths(_)
\* the paths of the objects of a sequence of values, each object before the
\* objects in its fields
ObjectPaths(values) ==
    IF values = <<>> THEN <<>>
    ELSE (IF Head(values).type = "Object"
          THEN <<Head(values).path>> \o ObjectPaths(Head(values).vals)
          ELSE <<>>) \o ObjectPaths(Tail(values))

RECURSIVE DistinctInOrder(_)
\* the distinct elements of a sequence in the order of their first occurrence
DistinctInOrder(q) ==
    IF q = <<>> THEN <<>>
    ELSE LET before == DistinctInOrder(SubSeq(q, 1, Len(q) - 1))
         IN  IF q[Len(q)] \in Range(before) THEN before ELSE Append(before, q[Len(q)])

EventsOf(log, kind) == {i \in 1..Len(log) : log[i].k = kind}

RECURSIVE NamesOf(_, _)
\* the class names of the events of one kind, in order
NamesOf(log, kind) ==
    IF log = <<>> THEN <<>>
    ELSE (IF Head(log).k = kind THEN <<Head(log).name>> ELSE <<>>) \o NamesOf(Tail(log), kind)

\* C11: in the frame of a request, the arguments hold one reference per
\* object of the request, in order; every class name has exactly one 'C'
\* definition, which comes before every reference to it; and the id of every
\* reference is the 0-based position of its class name among the distinct
\* class names of the request in order of first occurrence.
C11_ClassInterning ==
    FirstEncoded =>
      LET arguments == e_request["arguments"]
          r == ReadArguments(e_first.out, arguments)
          names == ObjectPaths(arguments)
          distinct == DistinctInOrder(names)
          refs == EventsOf(r.log, "R")
          defs == EventsOf(r.log, "C")
      IN  /\ r.ok
          /\ ByteAt(FrameBody(e_first.out), r.pos) = 72
          /\ NamesOf(r.log, "R") = names
          /\ \A n \in Range(distinct) : Cardinality({i \in defs : r.log[i].name = n}) = 1
          /\ \A i \in defs : r.log[i].name \in Range(distinct)
          /\ \A i \in refs :
               /\ \E j \in defs : j < i /\ r.log[j].name = r.log[i].name
               /\ r.log[i].id = IndexOf(distinct, r.log[i].name)

\* a frame whose arguments hold an a.C with an a.B inside, and the a.B again
C11_NestedAndRepeated ==
    /\ FirstEncoded
    /\ e_request["arguments"] = <<Object_C1, Object_B1>>
    /\ ReadArguments(e_first.out, e_request["arguments"]).ok

BigEndian4(b) == ((b[1] * 256 + b[2]) * 256 + b[3]) * 256 + b[4]

\* C13: a frame is the 12 bytes of the fixed header prefix, then 4 bytes that
\* hold the number of body bytes most significant byte first, then the body,
\* so that the header is 16 bytes; every byte of the frame is in 0..255.
C13_FrameLength ==
    FirstEncoded =>
      LET out == e_first.out
      IN  /\ Len(out) >= 16
          /\ SubSeq(out, 1, 12) = DEFAULT_REQUEST_META
          /\ out[13] < 128
          /\ BigEndian4(SubSeq(out, 13, 16)) = Len(out) - 16
          /\ Len(FrameBody(out)) = BigEndian4(SubSeq(out, 13, 16))
          /\ \A i \in 1..Len(out) : out[i] \in 0..255

\* a frame whose body is longer than one length byte can hold
C13_LongBody ==
    /\ FirstEncoded
    /\ Len(e_first.out) > 16 + 255
    /\ e_first.out[15] > 0

\* the parameter types of a frame: the fifth string of its body
ReadParameterTypes(frame) == ReadStrs(FrameBody(frame), 1, 5).val[5]

RECURSIVE SplitTypes(_)
\* the descriptors of a parameter types string, one per argument
SplitTypes(text) ==
    IF text = <<>> THEN <<>>
    ELSE LET n == IF text[1] = 76
                  THEN CHOOSE i \in 1..Len(text) :
                           text[i] = 59 /\ \A j \in 1..(i - 1) : text[j] # 59
                  ELSE 1
         IN  <<SubSeq(text, 1, n)>> \o SplitTypes(SubSeq(text, n + 1, Len(text)))

RECURSIVE FlatCount(_)
\* the number of values in a sequence of values, fields of objects included
FlatCount(values) ==
    IF values = <<>> THEN 0
    ELSE 1 + (IF Head(values).type = "Object" THEN FlatCount(Head(values).vals) ELSE 0)
           + FlatCount(Tail(values))

IsValueEvent(event) == event.k # "C"

\* what the reader met in the place of argument i of the request
ArgumentEvent(frame, arguments, i) ==
    SelectSeq(ReadArguments(frame, arguments).log, IsValueEvent)
        [FlatCount(SubSeq(arguments, 1, i - 1)) + 1]

\* an int outside -2^31 .. 2^31 - 1
OutsideInt32(value) == value.wide # 0

\* C14: for every int argument the descriptor is 'J' exactly when the value
\* is outside the signed 32-bit range, and exactly then the body holds 'L' and
\* the 8 big-endian bytes of the value; otherwise the descriptor is 'I' and the
\* body holds the value in one of the forms of a 32-bit int.
C14_IntegerWidthAgrees ==
    FirstEncoded =>
      LET arguments == e_request["arguments"]
          types == SplitTypes(ReadParameterTypes(e_first.out))
      IN  /\ Len(types) = Len(arguments)
          /\ \A i \in 1..Len(arguments) :
               arguments[i].type = "int" =>
                 LET event == ArgumentEvent(e_first.out, arguments, i)
                     long == event.tag = 76 /\ event.size = 9
                 IN  /\ event.k = "V" /\ event.same
                     /\ types[i] = <<74>> <=> OutsideInt32(arguments[i])
                     /\ long <=> OutsideInt32(arguments[i])
                     /\ ~OutsideInt32(arguments[i]) =>
                          /\ types[i] = <<73>>
                          /\ event.tag = 73 \/ (event.tag >= 128 /\ event.tag <= 215)

\* the four values at the two ends of the signed 32-bit range
IntBoundaries == {PyInt(MIN_INT_32), PyInt(MAX_INT_32), BelowMinInt32, TwoTo31}

\* one of the values at the ends of the range has been encoded, after an
\* object or alone
C14_BoundaryEncoded ==
    /\ FirstEncoded
    /\ e_request["arguments"] # <<>>
    /\ e_request["arguments"][Len(e_request["arguments"])].type = "int"
    /\ e_request["arguments"][Len(e_request["arguments"])] \in IntBoundaries
    /\ ReadArguments(e_first.out, e_request["arguments"]).ok

\* the types the encoder knows
KnownTypes == {"bool", "int", "float", "str", "Object"}

RECURSIVE HasUnknown(_)
\* a value of another type among the values or in a field of an object of
\* theirs, at any depth
HasUnknown(values) ==
    \E i \in 1..Len(values) :
        \/ values[i].type \notin KnownTypes
        \/ values[i].type = "Object" /\ HasUnknown(values[i].vals)

C18_FieldLayoutAsDeclared ==
    FirstEncoded =>
      LET r == ReadArguments(e_first.out, e_request["arguments"])
      IN  /\ r.ok
          /\ \A i \in EventsOf(r.log, "R") :
               /\ r.log[i].id <= 15 => r.log[i].tag = 96 + r.log[i].id
               /\ r.log[i].id > 15 => r.log[i].tag = 79
               /\ r.log[i].keys = r.log[i].declared

\* the forms of a 32-bit int as the claim gives them; x >> k is the floor of
\* x / 2^k and x & 0xff the remainder of x by 256
ClaimedInt32(v) ==
    IF 0 - 16 <= v /\ v <= 47 THEN <<v + 144>>
    ELSE IF 0 - 2048 <= v /\ v <= 2047 THEN <<200 + (v \div 256), v % 256>>
    ELSE IF 0 - 262144 <= v /\ v <= 262143
    THEN <<212 + (v \div 65536), (v \div 256) % 256, v % 256>>
    ELSE <<73, (v \div 16777216) % 256, (v \div 65536) % 256, (v \div 256) % 256, v % 256>>

\* C20: every int argument in the signed 32-bit range is in the body in the
\* one, two, three or five bytes of its range, every byte in 0..255, and
\* reading the bytes gives the value back, so that no two values share them.
C20_Int32Compaction ==
    FirstEncoded =>
      LET arguments == e_request["arguments"]
          r == ReadArguments(e_first.out, arguments)
      IN  /\ r.ok
          /\ \A i \in 1..Len(arguments) :
               (arguments[i].type = "int" /\ ~OutsideInt32(arguments[i])) =>
                 LET event == ArgumentEvent(e_first.out, arguments, i)
                 IN  /\ event.k = "V"
                     /\ event.bytes = ClaimedInt32(arguments[i].val)
                     /\ \A j \in 1..Len(event.bytes) : event.bytes[j] \in 0..255
                     /\ event.same

\* a negative int of the three-byte form has been encoded
C20_NegativeThreeBytes ==
    /\ FirstEncoded
    /\ e_request["arguments"] = <<PyInt(0 - 2049)>>
    /\ Len(e_first.out) > 16

----------------------------------------------------------------------------
(* Properties of the watch callbacks and of discovery, continued *)

\* a watch callback ends with an exception in this step
CallbackFails == ~hist.cb_failed /\ hist'.cb_failed

\* thread t reads self.hosts[interface] for routing in this step
RoutingReadsHosts(t) == th[t].pc = "route" /\ th'[t].pc = "route_check"

\* C16: a provider or configurator callback that fails while listing or
\* parsing the children leaves hosts and weights as they were, and a call
\* after it routes over the list that was kept.
C16_WatcherFailureKeepsEntry ==
    [][/\ CallbackFails => (hosts' = hosts /\ weights' = weights)
       /\ \A t \in Threads :
            (hist.cb_failed /\ RoutingReadsHosts(t)) => th'[t].hosts = hosts[Interface]
      ]_vars

\* after a failed callback a call routes over a list that the providers in
\* the registry would no longer give
C16_RoutingOverKeptEntry ==
    /\ hist.cb_failed
    /\ watcher.pc = "idle"
    /\ cbQueue = <<>>
    /\ \E t \in Threads :
         /\ th[t].pc = "route_check"
         /\ th[t].hosts = hosts[Interface]
         /\ th[t].hosts # watch_children_hosts(
                              kept_providers(zk.providers, th[t].group, th[t].version))

\* thread t stores hosts[I] at the end of _get_providers_from_zk in this step
DiscoveryStoresHosts(t) == th[t].pc = "store_hosts" /\ th'[t].pc = "configurators"

\* C19: the list a discovery stores in hosts[I] is never older than one a
\* provider callback has stored before it: when the providers have changed
\* since the discovery listed them, the callback of that change has yet to
\* store its list, so that hosts[I] ends with the newer list.
C19_NoLostUpdate ==
    [][\A t \in Threads :
         (DiscoveryStoresHosts(t) /\ ~hist.cb_failed) =>
            \/ th[t].providers = kept_providers(zk.providers, th[t].group, th[t].version)
            \/ PendingCallbacks("providers") > 0
            \/ watcher.pc = "store_hosts"
      ]_vars

----------------------------------------------------------------------------
(* Properties of DubboClient.__init__ *)

\* the constructor returns or raises in this step
ConstructorEnds == c_pc = "new" /\ c_pc' # "new"

\* a registry was passed, a host address was passed (None and the empty
\* string are no host address)
RegistryGiven == c_client.zk_register
HostGiven == c_client.host.type = "str" /\ c_client.host.val # <<>>

\* C17: the constructor raises RegisterException exactly when neither a
\* registry nor a host is given, returns otherwise, and touches neither the
\* registry nor the connection to a host.
C17_ConstructorRaisesWithoutTarget ==
    [][ConstructorEnds =>
         /\ (c_pc' = "raised" /\ c_result'.exc = RegisterException)
              <=> (~RegistryGiven /\ ~HostGiven)
         /\ (RegistryGiven \/ HostGiven) => (c_pc' = "ready" /\ c_result' = c_result)
         /\ UNCHANGED <<regVars, c_host, c_param>>
      ]_vars

\* constructed with a host and no registry
C17_ConstructedWithHostOnly ==
    /\ c_pc = "ready"
    /\ ~RegistryGiven
    /\ HostGiven

----------------------------------------------------------------------------
(* Properties of get_provider_host for clients of different groups *)

\* every provider the registry may list for the interface
ListedProviders ==
    {l[i] : l \in ProviderListings, i \in 1..MaxListing}

\* thread t leaves _routing_with_wight with a host in this step
CallReturnsHost(t) ==
    /\ th[t].pc \in {"route_check", "route_loop"}
    /\ th'[t].pc = "idle"
    /\ hist'.returned \notin Exceptions

\* the host is that of a dubbo provider which passes the group/version filter
MatchesCriteria(host, group, version) ==
    \E p \in ListedProviders :
      /\ p.host = host
      /\ kept_providers(<<p>>, group, version) # <<>>

\* C21: a host that get_provider_host(I, g, v) returns belongs to a provider
\* that passes the group/version filter for (g, v), whatever criteria the
\* earlier calls and the watchers of the interface were made with.
C21_ReturnedHostMatchesCaller ==
    [][\A t \in Threads :
         CallReturnsHost(t) => MatchesCriteria(hist'.returned, th[t].group, th[t].version)
      ]_vars

\* C22: whenever the interface is in the hosts cache and no discovery is
\* under way, the consumer registration has been issued and the configurator
\* watch has been armed, also after a discovery that failed and was
\* followed by changes of the providers.
C22_CachedImpliesDiscovered ==
    (~not_cached(hosts) /\ lock = NoThread)
      => (hist.registered >= 1 /\ hist.configured >= 1)

----------------------------------------------------------------------------
(* Properties of the lock of get_provider_host *)

\* the steps of thread t inside get_provider_host: everything but the call
\* itself
CallStep(t) ==
    \/ LockedCached(t)
    \/ LockedExists(t)
    \/ LockedNoNode(t)
    \/ ProvidersNone(t)
    \/ ProvidersListed(t)
    \/ StoreHosts(t)
    \/ ConfiguratorsListed(t)
    \/ StoreWeights(t)
    \/ StoreNoWeights(t)
    \/ RouteNoProviders(t)
    \/ RouteReadHosts(t)
    \/ RouteChoice(t)
    \/ RouteHasWeights(t)
    \/ RouteReadWeights(t)
    \/ RouteLoop(t)
    \/ RouteHit(t)
    \/ RouteHitEmptyRange(t)

\* calls and changes in a behaviour of the fair specification
FairCalls == 2
FairChanges == 1

\* the registry of Init with part of the environment's budget spent
FairInit ==
    /\ zk \in {z \in [node : BOOLEAN, providers : ProviderListings \cup {<<>>},
                      configurators : ConfigListings] :
                 /\ z.node => z.providers # <<>> /\ z.configurators \in InitialConfigListings
                 /\ ~z.node => z.providers = <<>> /\ z.configurators = <<>>}
    /\ provWatch = [c \in Criteria |-> 0]
    /\ confWatch = FALSE
    /\ cbQueue = <<>>
    /\ hosts = EmptyDict
    /\ weights = EmptyDict
    /\ lock = NoThread
    /\ th = [t \in Threads |-> IdleThread]
    /\ watcher = IdleWatcher
    /\ env = [calls |-> MaxCalls - FairCalls, changes |-> MaxChanges - FairChanges,
              failures |-> 0]
    /\ hist = NoHistory
    /\ RouteIdle
    /\ FilterIdle
    /\ CallIdle
    /\ EncodeIdle

\* every thread that is inside get_provider_host and can go on does go on:
\* the ZooKeeper operations return and the scheduler runs every thread
SpecFair == FairInit /\ [][Next]_vars /\ \A t \in Threads : WF_vars(CallStep(t))

\* where a thread holds the lock: lines 160-167
LockedSteps == {"providers", "store_hosts", "configurators", "store_weights"}

LockHeldOnlyInside ==
    /\ lock \in Threads \cup {NoThread}
    /\ \A t \in Threads : lock = t <=> th[t].pc \in LockedSteps

\* C23: the lock is held by a thread exactly while it is inside the try block
\* of the discovery, so it is free when the call has returned or raised and
\* while the call routes; and every call returns or raises.
C23_LockNeverLeaked ==
    /\ []LockHeldOnlyInside
    /\ \A t \in Threads : (th[t].pc # "idle") ~> (th[t].pc = "idle")

\* a discovery has raised with the lock held, and the thread that waited for
\* the lock meanwhile now holds it
C23_WaiterEntersAfterRaise ==
    /\ hist.failed
    /\ hist.listed >= 1
    /\ hist.concurrent
    /\ th["t1"].pc = "idle"
    /\ lock = "t2"

----------------------------------------------------------------------------
(* Properties of _routing_with_wight, continued *)

\* the weights the call works with: missing hosts weigh 100
EffectiveWeights == hosts_weight(r_hosts, DictGet(r_weights, Interface, EmptyDict))

\* C24: for a non-empty host list, with no weight map or an empty one or with
\* weights whose effective total is at least 1, the call returns an element
\* of the host list it read; it never ends with the final RegisterException.
C24_RoutingYieldsMember ==
    (/\ r_pc = "done"
     /\ r_hosts # <<>>
     /\ no_weights(r_weights, Interface) \/ SumSeq(EffectiveWeights) >= 1)
      => (r_result \in Range(r_hosts) /\ r_result # RegisterException)

\* the largest hit over a full host list, one of whose hosts weighs 0 and one
\* of whose hosts has no weight: the last test of the loop selects a host
C24_LargestHitSelects ==
    /\ r_pc = "done"
    /\ Len(r_hosts) = MaxHosts
    /\ ~no_weights(r_weights, Interface)
    /\ 0 \in Range(EffectiveWeights)
    /\ DefaultWeight \in Range(EffectiveWeights)
    /\ r_hit = SumSeq(EffectiveWeights) - 1
    /\ r_result = r_hosts[MaxHosts]

----------------------------------------------------------------------------
(* Properties of Request.encode, continued *)

\* C25: a second call of encode() on the same Request returns the frame of
\* the first call, also for arguments that hold Objects.
C25_EncodeRepeatable ==
    (e_pc = "again" /\ e_first.exc = NoExc)
      => (e_other.exc = NoExc /\ e_other.out = e_first.out)

====
